---- MODULE Spec2Model ----
(***************************************************************************)
(* A model of the AI gateway: the content-addressed result cache           *)
(* (app/storage.py, the inference handlers of app/main.py) and the         *)
(* manifest indexer with its refresh-on-expiry cache                       *)
(* (app/ai_service/manifest_service.py).                                   *)
(***************************************************************************)
EXTENDS Integers, Sequences, FiniteSets, TLC

VARIABLES
    date,            \* the current UTC date (day index) read by datetime.now
    store,           \* the R2 bucket's inference objects: key -> artifact
    req,             \* the inference requests: input, position, response
    klog,            \* history: the key derivations made (arguments, date, key)
    clock,           \* the wall clock read by time.time()
    bucket,          \* the catalog objects in the R2 bucket
    indexed_prefixes,\* config.INDEXED_PREFIXES
    cache_manifest,  \* manifest_service._cache_manifest
    cache_time,      \* manifest_service._cache_time
    mcall,           \* the get_manifest_cached call in progress / last finished
    rcall,           \* resolve calls of several workers, step by step on the store
    putlog,          \* history: the put_object calls that succeeded, in order
    gets,            \* the /manifest and /presign requests on the event loop
    builds,          \* history: the (manifest, time) pairs of the finished rebuilds
    manifest_out,    \* the manifest of a build_manifest call on its own
    pg,              \* a paginate call on its own: arguments and result
    call             \* the last call of another function or handler taken on its
                     \* own: its arguments and its result

cacheVars == <<store, req>>
keyVars == <<klog>>
manVars == <<clock, bucket, indexed_prefixes, cache_manifest, cache_time, mcall>>
resVars == <<rcall, putlog>>
\* The variables that only the specifications after SpecManifest move
loopVars == <<gets, builds>>
buildVars == <<manifest_out>>
pageVars == <<pg>>
callVars == <<call>>
sideVars == <<resVars, loopVars, buildVars, pageVars, callVars>>
vars == <<date, store, req, klog, clock, bucket, indexed_prefixes,
          cache_manifest, cache_time, mcall, sideVars>>

(***************************************************************************)
(* Bounds of the model.                                                    *)
(***************************************************************************)
MaxReq == 2          \* inference requests in one run
MaxDay == 1          \* the date takes the values 0..MaxDay
MaxTime == 4         \* the clock takes the values 0..MaxTime
MaxKeys == 2         \* objects on one page of a listing (1000 in list_objects)
MaxItems == 4        \* paginate: the short lists have 0..MaxItems items
MaxPage == 4         \* paginate: the page numbers -1..MaxPage (and one far past the end)
MaxPageSize == 3     \* paginate: the page sizes -1..MaxPageSize (and 10)
MaxBytes == 2        \* edit_qwen: the uploaded images have 1..MaxBytes bytes
MaxListing == 3      \* the indexing loop: listings of 0..MaxListing records
MaxDrainCalls == 4   \* _iter_all_objects: list_objects calls of one drain
MaxHeader == 2       \* require_api_key: header values of 0..MaxHeader characters

\* Python's None
None == "None"

Range(s) == {s[i] : i \in 1..Len(s)}

(***************************************************************************)
(* The cache key deriver (storage.py).                                     *)
(*                                                                         *)
(* A parameter set (a Python dict) is None or a sequence of <<name, value>>*)
(* pairs with distinct names, in insertion order.                          *)
(***************************************************************************)

\* The order json.dumps(sort_keys=True) puts the parameter names in
\* (code-point order of the names used by the handlers and the key checks).
ParamNameOrder ==
    <<"a", "b", "background_enhance", "codeformer_fidelity", "face_upsample",
      "guidance", "img_guidance", "num_images", "prompt", "scale", "steps",
      "task", "tile", "upscale">>

\* params or {}
ParamsOrEmpty(params) == IF params = None THEN <<>> ELSE params

\* The pairs of a dict in insertion order: what json.dumps writes without sort_keys.
DumpInsertionOrder(d) == d

\* The pairs of a dict ordered by name: what json.dumps(d, sort_keys=True) writes.
DumpSortKeys(d) ==
    LET names == SelectSeq(ParamNameOrder, LAMBDA n : \E i \in 1..Len(d) : d[i][1] = n)
    IN  [i \in 1..Len(names) |->
            <<names[i], d[CHOOSE j \in 1..Len(d) : d[j][1] = names[i]][2]>>]

\* json.dumps of a payload whose params is the argument as given: null for None.
JsonDumps_null(task, source_url, style, params) ==
    [params |-> IF params = None THEN <<"null">> ELSE DumpSortKeys(params),
     src |-> source_url, style |-> style, task |-> task]

\* json.dumps(payload, sort_keys=True) of the payload of make_inference_key; the
\* top-level names are always written in the order params, src, style, task.
JsonDumps(task, source_url, style, params) ==
    [params |-> DumpSortKeys(ParamsOrEmpty(params)), src |-> source_url,
     style |-> style, task |-> task]

\* sha256(...).hexdigest(): modelled as collision-free, the digest of a text is the text.
Sha256(text) == text

\* style or 'default'
StyleOrDefault(style) == IF style = None \/ style = "" THEN "default" ELSE style

make_inference_key_unsorted(task, source_url, style, params, ext, today) ==
    [ns |-> "inference", task |-> task, day |-> today,
     variant |-> StyleOrDefault(style),
     digest |-> Sha256([params |-> DumpInsertionOrder(ParamsOrEmpty(params)),
                        src |-> source_url, style |-> style, task |-> task]),
     ext |-> ext]

\* make_inference_key: inference/<task>/<YYYY/MM/DD>/<style or default>/<digest[:16]>.<ext>;
\* `today` is the value of datetime.now(timezone.utc) truncated to the day.
make_inference_key(task, source_url, style, params, ext, today) ==
    [ns |-> "inference", task |-> task, day |-> today,
     variant |-> StyleOrDefault(style),
     digest |-> Sha256(JsonDumps(task, source_url, style, params)),
     ext |-> ext]

\* make_inference_key_from_bytes, which main.py imports from storage.py: the key of
\* the operation, a content digest of the input bytes, and the parameters.
make_inference_key_from_bytes(task, image_bytes, params, ext, today) ==
    make_inference_key(task, Sha256(image_bytes), None, params, ext, today)

(***************************************************************************)
(* The object store as the cache sees it (storage.py).                     *)
(***************************************************************************)

\* A head_object that may answer from before another request's put: 404 for an
\* object that is there by now.
HeadOutcomes_stale(st, key) ==
    (IF key \in DOMAIN st THEN {"found"} ELSE {}) \cup {"absent", "unreachable"}

\* What a head_object call can do: return the object's metadata when the object
\* exists, raise 404 when it does not, or raise another error (store unreachable).
HeadOutcomes(st, key) ==
    (IF key \in DOMAIN st THEN {"found"} ELSE {"absent"}) \cup {"unreachable"}

\* presign_get: a URL for the key; it needs no call to the store.
presign_get(key) == [url_of |-> key]

\* The metadata names whose values the handlers pass as numbers
NumericNames == {"steps", "img_guidance", "guidance"}

\* str(v) of a metadata value: a string is itself, a number is its decimal text
\* (of the scaled integer that stands for a float).
StrValue(k, v) == IF k \in NumericNames THEN ToString(v) ELSE v

\* The put_object arguments; the metadata is {str(k): str(v) for k, v in items}
\* when there is any.
PutKwargs(data, content_type, metadata) ==
    IF metadata = None \/ metadata = <<>>
    THEN [Body |-> data, ContentType |-> content_type,
          CacheControl |-> "public, max-age=31536000, immutable"]
    ELSE [Body |-> data, ContentType |-> content_type,
          CacheControl |-> "public, max-age=31536000, immutable",
          Metadata |-> [i \in 1..Len(metadata) |->
                           <<metadata[i][1],
                             StrValue(metadata[i][1], metadata[i][2])>>]]

\* An upload_bytes_to_r2 whose put_object stores nothing.
upload_bytes_to_r2_lost(st, data, key, content_type, metadata, putOk) ==
    [store |-> st, raised |-> ~putOk, url |-> presign_get(key),
     put |-> IF putOk THEN "ok" ELSE "failed"]

\* An upload_bytes_to_r2 that leaves an object that is already there.
upload_bytes_to_r2_keep_first(st, data, key, content_type, metadata, putOk) ==
    IF putOk
    THEN [store |-> [k \in DOMAIN st \cup {key} |->
                        IF k \in DOMAIN st THEN st[k]
                        ELSE PutKwargs(data, content_type, metadata)],
          raised |-> FALSE, url |-> presign_get(key), put |-> "ok"]
    ELSE [store |-> st, raised |-> TRUE, url |-> presign_get(key), put |-> "failed"]

\* upload_bytes_to_r2: put_object, then presign; put_object raises when putOk is
\* FALSE, and the exception leaves the function.
upload_bytes_to_r2(st, data, key, content_type, metadata, putOk) ==
    IF putOk
    THEN [store |-> [k \in DOMAIN st \cup {key} |->
                        IF k = key THEN PutKwargs(data, content_type, metadata)
                        ELSE st[k]],
          raised |-> FALSE, url |-> presign_get(key), put |-> "ok"]
    ELSE [store |-> st, raised |-> TRUE, url |-> presign_get(key), put |-> "failed"]

\* A get_or_put_cached that returns without an upload when the probe fails.
get_or_put_cached_noput(st, data, key, content_type, metadata, probe, putOk) ==
    [store |-> st, raised |-> FALSE, url |-> presign_get(key), key |-> key,
     hit |-> (probe = "found"), put |-> "none"]

\* A get_or_put_cached that uploads whatever the probe answers.
get_or_put_cached_reput(st, data, key, content_type, metadata, probe, putOk) ==
    LET up == upload_bytes_to_r2(st, data, key, content_type, metadata, putOk)
    IN  [store |-> up.store, raised |-> up.raised, url |-> up.url, key |-> key,
         hit |-> (probe = "found"), put |-> up.put]

\* A get_or_put_cached that takes an error of the probe for a hit.
get_or_put_cached_hit_on_error(st, data, key, content_type, metadata, probe, putOk) ==
    IF probe \in {"found", "unreachable"}
    THEN [store |-> st, raised |-> FALSE, url |-> presign_get(key), key |-> key,
          hit |-> TRUE, put |-> "none"]
    ELSE LET up == upload_bytes_to_r2(st, data, key, content_type, metadata, putOk)
         IN  [store |-> up.store, raised |-> up.raised, url |-> up.url, key |-> key,
              hit |-> FALSE, put |-> up.put]

\* get_or_put_cached: head_object; on any exception of it, upload.
get_or_put_cached(st, data, key, content_type, metadata, probe, putOk) ==
    IF probe = "found"
    THEN [store |-> st, raised |-> FALSE, url |-> presign_get(key), key |-> key,
          hit |-> TRUE, put |-> "none"]
    ELSE LET up == upload_bytes_to_r2(st, data, key, content_type, metadata, putOk)
         IN  [store |-> up.store, raised |-> up.raised, url |-> up.url, key |-> key,
              hit |-> FALSE, put |-> up.put]

(***************************************************************************)
(* The inference handlers (main.py).  Bytes are sequences of small numbers;*)
(* a float is its value times ten.                                         *)
(***************************************************************************)
NoInput == [op |-> "none"]
NoKey == [ns |-> "none"]
NoBytes == <<>>

RestoreInput(image, task, upscale, tile, fidelity) ==
    [op |-> "restore", image |-> image, task |-> task, upscale |-> upscale,
     tile |-> tile, codeformer_fidelity |-> fidelity,
     background_enhance |-> TRUE, face_upsample |-> TRUE]

RemoveBgInput(image) == [op |-> "remove_bg", image |-> image]

EditByTextInput(image, prompt) ==
    [op |-> "edit_by_text", image |-> image, prompt |-> prompt,
     num_inference_steps |-> 20, image_guidance_scale |-> 15, guidance_scale |-> 70]

\* image_2 and image_3 are optional: NoBytes stands for a part that was not sent
\* or was sent empty (both are skipped by the handler).
EditQwenInput(prompt, image_1, image_2, image_3) ==
    [op |-> "edit_qwen", prompt |-> prompt, num_inference_steps |-> 20,
     guidance_scale |-> 70, image_1 |-> image_1, image_2 |-> image_2,
     image_3 |-> image_3]

\* The requests a client sends in the model.
RequestInputs ==
    { RestoreInput(<<1>>, "upscale+face_restore", 4, 0, 5),
      RestoreInput(<<1>>, "upscale", 5, 0, 5),
      RemoveBgInput(<<1>>),
      RemoveBgInput(NoBytes),
      EditByTextInput(<<1>>, "p"),
      EditQwenInput("p", <<1>>, <<2>>, NoBytes) }

\* What a backend can answer with: the output bytes and meta["content_type"]
Outputs ==
    { [bytes |-> <<7>>, content_type |-> "image/png"],
      [bytes |-> <<8>>, content_type |-> "image/jpeg"] }

NoOutput == [bytes |-> NoBytes, content_type |-> "image/png"]

\* The content_type each handler passes to get_or_put_cached:
\* meta.get("content_type", "image/png") in restore and edit_qwen, "image/png"
\* in remove_bg and edit_by_text.
HandlerContentType(inp, produced) ==
    IF inp.op \in {"restore", "edit_qwen"} THEN produced.content_type ELSE "image/png"

\* restore_multipart without its check of tile.
restore_front_no_tile_check(inp, readOk) ==
    IF inp.task \notin {"upscale", "upscale+face_restore"} THEN 422
    ELSE IF inp.upscale \notin {2, 3, 4} THEN 422
    ELSE IF ~(0 <= inp.codeformer_fidelity /\ inp.codeformer_fidelity <= 10) THEN 422
    ELSE IF ~readOk THEN 400
    ELSE IF inp.image = NoBytes THEN 400
    ELSE 0

\* restore_multipart: the parameter checks, then the read of the upload.
\* 0 stands for "passed"; otherwise the HTTP status of the HTTPException.
restore_front(inp, readOk) ==
    IF inp.task \notin {"upscale", "upscale+face_restore"} THEN 422
    ELSE IF inp.upscale \notin {2, 3, 4} THEN 422
    ELSE IF inp.tile < 0 THEN 422
    ELSE IF ~(0 <= inp.codeformer_fidelity /\ inp.codeformer_fidelity <= 10) THEN 422
    ELSE IF ~readOk THEN 400
    ELSE IF inp.image = NoBytes THEN 400
    ELSE 0

\* remove_bg_multipart: the read of the upload.
remove_bg_front(inp, readOk) ==
    IF ~readOk THEN 400 ELSE IF inp.image = NoBytes THEN 400 ELSE 0

\* edit_by_text_multipart: the read of the upload, then the prompt check.
edit_by_text_front(inp, readOk) ==
    IF ~readOk THEN 400
    ELSE IF inp.image = NoBytes THEN 400
    ELSE IF inp.prompt = "" THEN 422
    ELSE 0

\* edit_qwen_multipart: the reads of the uploads; an empty image_1 raises 400
\* inside the try block and leaves it as 400.
edit_qwen_front(inp, readOk) ==
    IF ~readOk THEN 400 ELSE IF inp.image_1 = NoBytes THEN 400 ELSE 0

FrontStatus(inp, readOk) ==
    CASE inp.op = "restore" -> restore_front(inp, readOk)
      [] inp.op = "remove_bg" -> remove_bg_front(inp, readOk)
      [] inp.op = "edit_by_text" -> edit_by_text_front(inp, readOk)
      [] inp.op = "edit_qwen" -> edit_qwen_front(inp, readOk)

\* edit_qwen_multipart: image_bytes_list, the non-empty images in the order 1, 2, 3
image_bytes_list(inp) ==
    <<inp.image_1>>
    \o (IF inp.image_2 # NoBytes THEN <<inp.image_2>> ELSE <<>>)
    \o (IF inp.image_3 # NoBytes THEN <<inp.image_3>> ELSE <<>>)

\* b"".join(list)
RECURSIVE BytesJoin(_)
BytesJoin(list) ==
    IF list = <<>> THEN NoBytes ELSE Head(list) \o BytesJoin(Tail(list))

\* The task name each handler passes to make_inference_key_from_bytes
KeyTask(inp) ==
    CASE inp.op = "restore" -> "restore"
      [] inp.op = "remove_bg" -> "remove_bg"
      [] inp.op = "edit_by_text" -> "edit_by_text"
      [] inp.op = "edit_qwen" -> "qwen_edit"

\* The input bytes each handler passes to make_inference_key_from_bytes
KeyBytes(inp) ==
    IF inp.op = "edit_qwen" THEN BytesJoin(image_bytes_list(inp)) ELSE inp.image

\* The params dict each handler passes, in the insertion order of its literal
KeyParams(inp) ==
    CASE inp.op = "restore" ->
            << <<"task", inp.task>>, <<"upscale", inp.upscale>>, <<"tile", inp.tile>>,
               <<"codeformer_fidelity", inp.codeformer_fidelity>>,
               <<"background_enhance", inp.background_enhance>>,
               <<"face_upsample", inp.face_upsample>> >>
      [] inp.op = "remove_bg" -> None
      [] inp.op = "edit_by_text" ->
            << <<"prompt", inp.prompt>>, <<"steps", inp.num_inference_steps>>,
               <<"img_guidance", inp.image_guidance_scale>>,
               <<"guidance", inp.guidance_scale>> >>
      [] inp.op = "edit_qwen" ->
            << <<"prompt", inp.prompt>>, <<"steps", inp.num_inference_steps>>,
               <<"scale", inp.guidance_scale>>,
               <<"num_images", Len(image_bytes_list(inp))>> >>

\* The key a handler derives for its request on day `today`
HandlerKey(inp, today) ==
    make_inference_key_from_bytes(KeyTask(inp), KeyBytes(inp), KeyParams(inp), "png", today)

\* The metadata each handler passes to get_or_put_cached
HandlerMetadata(inp) ==
    CASE inp.op = "restore" ->
            << <<"model", "realesrgan+codeformer">>, <<"task", inp.task>> >>
      [] inp.op = "remove_bg" ->
            << <<"model", "briaai/RMBG-1.4">>, <<"task", "remove_bg">> >>
      [] inp.op = "edit_by_text" ->
            << <<"model", "timbrooks/instruct-pix2pix">>, <<"task", "edit_by_text">> >>
            \o KeyParams(inp)
      [] inp.op = "edit_qwen" ->
            << <<"model", "qwen-image-edit-2509">>, <<"prompt", inp.prompt>> >>

\* How a call of the handler's producer can end: with output bytes, with an
\* InferenceError, or (call_restore_from_bytes only, whose httpx calls and
\* resp.json() are outside any try block) with another exception.
ProducerOutcomes(inp) ==
    IF inp.op = "restore" THEN {"ok", "InferenceError", "Exception"}
    ELSE {"ok", "InferenceError"}

\* The handlers' mapping of a producer exception to the response status
ProducerErrorStatus(outcome) == IF outcome = "InferenceError" THEN 502 ELSE 500

(***************************************************************************)
(* The steps of an inference request.  A handler runs without interruption *)
(* except at its awaits: the read of the upload and the call of the        *)
(* producer.  What follows the producer's return (key, head, put, response)*)
(* is synchronous code.                                                    *)
(***************************************************************************)
IdleRequest ==
    [inp |-> NoInput, pc |-> "idle", status |-> 0, key |-> NoKey, hit |-> FALSE,
     producer |-> "none", probe |-> "none", put |-> "none", day |-> 0]

EmptyStore == [k \in {} |-> NoBytes]

\* A handler that goes on to the cache with empty bytes when its producer fails.
HandlerTail_swallow(st, r, today, outcome, out, probe, putOk) ==
    LET key == HandlerKey(r.inp, today)
        got == get_or_put_cached(st, out.bytes, key, HandlerContentType(r.inp, out),
                                 HandlerMetadata(r.inp), probe, putOk)
    IN  [store |-> got.store,
         resp |-> [r EXCEPT !.pc = "done", !.status = IF got.raised THEN 500 ELSE 200,
                            !.producer = outcome, !.key = got.key, !.hit = got.hit,
                            !.probe = probe, !.put = got.put, !.day = today]]

\* The handler from the return of its producer to its response: a producer
\* exception becomes HTTPException 502 or 500; otherwise the key is derived,
\* get_or_put_cached runs, and an exception of it leaves the handler (status 500).
HandlerTail(st, r, today, outcome, out, probe, putOk) ==
    IF outcome # "ok"
    THEN [store |-> st,
          resp |-> [r EXCEPT !.pc = "done", !.status = ProducerErrorStatus(outcome),
                             !.producer = outcome]]
    ELSE LET key == HandlerKey(r.inp, today)
             got == get_or_put_cached(st, out.bytes, key,
                                      HandlerContentType(r.inp, out),
                                      HandlerMetadata(r.inp), probe, putOk)
         IN  [store |-> got.store,
              resp |-> [r EXCEPT !.pc = "done",
                                 !.status = IF got.raised THEN 500 ELSE 200,
                                 !.producer = "ok", !.key = got.key,
                                 !.hit = got.hit, !.probe = probe, !.put = got.put,
                                 !.day = today]]

\* A request arrives: the handler runs to its first rejection or to the call of
\* its producer, which sends the request to the backend.
ReceiveFrom(i, inputs) ==
    /\ req[i].pc = "idle"
    /\ \A j \in 1..(i - 1) : req[j].pc # "idle"
    /\ \E inp \in inputs, readOk \in BOOLEAN :
         LET st == FrontStatus(inp, readOk)
         IN  req' = [req EXCEPT ![i] =
                 IF st # 0
                 THEN [@ EXCEPT !.inp = inp, !.pc = "done", !.status = st]
                 ELSE [@ EXCEPT !.inp = inp, !.pc = "awaiting"]]
    /\ UNCHANGED <<sideVars, date, store, keyVars, manVars>>

Receive(i) == ReceiveFrom(i, RequestInputs)

\* Requests whose parameters the handlers check: one restore request that
\* passes, one for each check of restore_multipart that fails (the fidelity
\* below and above its range), and an edit_by_text request with an empty prompt.
ValidationInputs ==
    { RestoreInput(<<1>>, "upscale", 2, 0, 5),
      RestoreInput(<<1>>, "denoise", 2, 0, 5),
      RestoreInput(<<1>>, "upscale", 5, 0, 5),
      RestoreInput(<<1>>, "upscale", 2, -1, 5),
      RestoreInput(<<1>>, "upscale", 2, 0, -1),
      RestoreInput(<<1>>, "upscale", 2, 0, 11),
      EditByTextInput(<<1>>, "") }

ReceiveChecked(i) == ReceiveFrom(i, ValidationInputs)

\* The producer fails and the handler answers with the error.
ProducerFails(i) ==
    /\ req[i].pc = "awaiting"
    /\ \E outcome \in ProducerOutcomes(req[i].inp) \ {"ok"} :
         LET t == HandlerTail(store, req[i], date, outcome, NoOutput, "none", TRUE)
         IN  /\ store' = t.store
             /\ req' = [req EXCEPT ![i] = t.resp]
    /\ UNCHANGED <<sideVars, date, keyVars, manVars>>

\* The producer returns bytes and the handler runs to its end.
ProducerReturns(i) ==
    /\ req[i].pc = "awaiting"
    /\ \E out \in Outputs, putOk \in BOOLEAN :
       \E probe \in HeadOutcomes(store, HandlerKey(req[i].inp, date)) :
         LET t == HandlerTail(store, req[i], date, "ok", out, probe, putOk)
         IN  /\ store' = t.store
             /\ req' = [req EXCEPT ![i] = t.resp]
    /\ UNCHANGED <<sideVars, date, keyVars, manVars>>

\* Midnight UTC passes.
AdvanceDay ==
    /\ date < MaxDay
    /\ date' = date + 1
    /\ UNCHANGED <<sideVars, cacheVars, keyVars, manVars>>

(***************************************************************************)
(* Calls of the key deriver alone.  klog keeps the last two derivations.   *)
(***************************************************************************)
KeyParamSets ==
    { None, <<>>,
      << <<"a", 1>> >>, << <<"a", 2>> >>, << <<"b", 1>> >>,
      << <<"a", 1>>, <<"b", 1>> >>, << <<"b", 1>>, <<"a", 1>> >>,
      << <<"a", 1>>, <<"b", 2>> >>, << <<"b", 2>>, <<"a", 1>> >> }

KeyArgs ==
    [task : {"restore", "remove_bg"}, source_url : {"s1", "s2"},
     style : {None, "anime"}, params : KeyParamSets, ext : {"png"}]

DeriveKey ==
    /\ \E a \in KeyArgs :
         klog' = (IF klog = <<>> THEN <<>> ELSE <<klog[Len(klog)]>>) \o
                 << [args |-> a, day |-> date,
                     key |-> make_inference_key(a.task, a.source_url, a.style,
                                                a.params, a.ext, date)] >>
    /\ UNCHANGED <<sideVars, date, cacheVars, manVars>>

(***************************************************************************)
(* The manifest indexer (manifest_service.py).                             *)
(*                                                                         *)
(* An object key is its "/"-separated parts: dirs, the parts before the    *)
(* last one, and name, the last part as its "."-separated pieces.  A key   *)
(* that ends with "/" has the empty last part <<"">>.                      *)
(***************************************************************************)
Key(dirs, name) == [dirs |-> dirs, name |-> name]
Obj(key, size, etag) == [Key |-> key, Size |-> size, ETag |-> etag]

\* The objects the bucket can hold, in the order the store lists them
CatalogObjects ==
    << Obj(Key(<<"Cat1", "T1">>, <<"a", "cube">>), 100, "e1"),
       Obj(Key(<<"Cat1", "T1">>, <<"b", "xmp">>), 50, "e2"),
       Obj(Key(<<"Cat1", "T1">>, <<"ignored", "txt">>), 7, "e3"),
       Obj(Key(<<"Cat2", "T2">>, <<"c", "onpreset">>), 10, "e4") >>

\* The configurations of INDEXED_PREFIXES in the model (each entry already
\* stripped of "/", as config.py leaves it): none, two disjoint, two nested.
PrefixConfigs ==
    { <<>>, << <<"Cat1">>, <<"Cat2">> >>, << <<"Cat1">>, <<"Cat1", "T1">> >> }

\* The code-point order of the category and target names
NameOrder == <<"Cat1", "Cat2", "T1", "T2">>
NameRank(n) == CHOOSE i \in 1..Len(NameOrder) : NameOrder[i] = n

\* config.MANIFEST_CACHE_TTL_SECONDS (the environment sets it; 300 by default)
MANIFEST_CACHE_TTL_SECONDS == 2

\* config.ALLOWED_EXTS, each extension as its pieces
ALLOWED_EXTS == {<<"xmp">>, <<"cube">>, <<"onpreset">>, <<"onpreset", "zip">>}

\* str.lower() on the pieces the model uses
Lower(piece) ==
    CASE piece = "XMP" -> "xmp"
      [] piece = "CUBE" -> "cube"
      [] OTHER -> piece

\* _ext_of: PurePosixPath(key).suffix.lower(), the last "."-piece of the name
\* unless the name has no "." after its first character or ends with "."
_ext_of(key) ==
    LET n == key.name
    IN  IF Len(n) >= 2 /\ n[Len(n)] # "" /\ ~(Len(n) = 2 /\ n[1] = "")
        THEN <<Lower(n[Len(n)])>>
        ELSE <<>>

\* _is_valid_file
_is_valid_file(key) == _ext_of(key) \in ALLOWED_EXTS

\* key.endswith("/")
EndsWithSlash(key) == key.name = <<"">>

\* key.split("/")
SplitParts(key) == key.dirs \o <<key.name>>

\* base_prefix = (base.strip("/") + "/") if base else "": the parts of the prefix
\* (none for the whole bucket)
BasePrefixes(cfg) == IF cfg = <<>> THEN << <<>> >> ELSE cfg

\* An object key starts with the prefix
StartsWith(key, prefix) ==
    /\ Len(prefix) <= Len(key.dirs)
    /\ \A i \in 1..Len(prefix) : key.dirs[i] = prefix[i]

\* list_objects: one page of at most MaxKeys objects under the prefix after the
\* continuation token (0: from the start), as list_objects_v2 answers it
list_objects(b, prefix, token) ==
    LET idx == SelectSeq([i \in 1..Len(CatalogObjects) |-> i],
                         LAMBDA i : /\ i > token
                                    /\ CatalogObjects[i] \in b
                                    /\ StartsWith(CatalogObjects[i].Key, prefix))
        n == IF Len(idx) > MaxKeys THEN MaxKeys ELSE Len(idx)
    IN  [Contents |-> [i \in 1..n |-> CatalogObjects[idx[i]]],
         IsTruncated |-> Len(idx) > MaxKeys,
         NextContinuationToken |-> IF n = 0 THEN 0 ELSE idx[n]]

PackIndex(packs, pack_id) ==
    IF \E i \in 1..Len(packs) : packs[i].id = pack_id
    THEN CHOOSE i \in 1..Len(packs) : packs[i].id = pack_id
    ELSE 0

\* A loop body that puts each file at the front of its pack's list.
AddObject_prepend(packs, obj) ==
    LET key == obj.Key
        parts == SplitParts(key)
        file == [key |-> key, size |-> obj.Size, etag |-> obj.ETag,
                 content_type |-> "application/octet-stream"]
        at == IF Len(parts) < 3 THEN 0 ELSE PackIndex(packs, <<parts[1], parts[2]>>)
    IN  IF EndsWithSlash(key) \/ ~_is_valid_file(key) \/ Len(parts) < 3 THEN packs
        ELSE IF at = 0
             THEN Append(packs, [id |-> <<parts[1], parts[2]>>,
                                 title |-> <<parts[1], "-", parts[2]>>,
                                 category |-> parts[1], target |-> parts[2],
                                 files |-> <<file>>])
             ELSE [packs EXCEPT ![at].files = <<file>> \o @]

\* A loop body that opens a new pack for every file.
AddObject_new_pack(packs, obj) ==
    LET key == obj.Key
        parts == SplitParts(key)
    IN  IF EndsWithSlash(key) \/ ~_is_valid_file(key) \/ Len(parts) < 3 THEN packs
        ELSE Append(packs, [id |-> <<parts[1], parts[2]>>,
                            title |-> <<parts[1], "-", parts[2]>>,
                            category |-> parts[1], target |-> parts[2],
                            files |-> <<[key |-> key, size |-> obj.Size,
                                         etag |-> obj.ETag,
                                         content_type |-> "application/octet-stream"]>>])

\* build_manifest, the body of the loop over the listed objects: skip directory
\* markers, other extensions and keys of fewer than three parts; otherwise append
\* the file to its pack, created on first use (packs.setdefault).
AddObject(packs, obj) ==
    LET key == obj.Key
        parts == SplitParts(key)
    IN  IF EndsWithSlash(key) THEN packs
        ELSE IF ~_is_valid_file(key) THEN packs
        ELSE IF Len(parts) < 3 THEN packs
        ELSE LET category == parts[1]
                 target == parts[2]
                 pack_id == <<category, target>>
                 file == [key |-> key, size |-> obj.Size, etag |-> obj.ETag,
                          content_type |-> "application/octet-stream"]
                 at == PackIndex(packs, pack_id)
             IN  IF at = 0
                 THEN Append(packs, [id |-> pack_id, title |-> <<category, "-", target>>,
                                     category |-> category, target |-> target,
                                     files |-> <<file>>])
                 ELSE [packs EXCEPT ![at].files = Append(@, file)]

RECURSIVE AddObjects(_, _)
AddObjects(packs, objs) ==
    IF objs = <<>> THEN packs
    ELSE AddObjects(AddObject(packs, Head(objs)), Tail(objs))

\* (category, target) of p is at most that of q
PackLeq(p, q) ==
    \/ NameRank(p.category) < NameRank(q.category)
    \/ /\ p.category = q.category
       /\ NameRank(p.target) <= NameRank(q.target)

\* No sort: the packs in the order of their first file.
SortPacks_unsorted(ps) == ps

\* list.sort(key=lambda p: (p["category"], p["target"])): a stable sort
RECURSIVE SortPacks(_)
SortPacks(ps) ==
    IF ps = <<>> THEN <<>>
    ELSE LET rest == SortPacks(Tail(ps))
             h == Head(ps)
             n == Cardinality({i \in 1..Len(rest) : ~PackLeq(h, rest[i])})
         IN  SubSeq(rest, 1, n) \o <<h>> \o SubSeq(rest, n + 1, Len(rest))

\* build_manifest after its loops: count every pack, collect and sort the packs
FinishManifest(packs) ==
    [version |-> "2025.10.0",
     packs |-> SortPacks([i \in 1..Len(packs) |->
                  [id |-> packs[i].id, title |-> packs[i].title,
                   category |-> packs[i].category, target |-> packs[i].target,
                   files |-> packs[i].files, count |-> Len(packs[i].files)]])]

(***************************************************************************)
(* The manifest cache: get_manifest_cached, called by the /manifest and    *)
(* /presign handlers.  The call has no await: it runs to its end before    *)
(* another request of the process is served; the clock and the bucket move *)
(* while it waits for the store.                                           *)
(***************************************************************************)
\* _cache_manifest = None
NoManifest == [version |-> "None", packs |-> <<>>]

IdleCall ==
    [pc |-> "idle", now |-> 0, prefix |-> 1, token |-> 0, packs |-> <<>>,
     result |-> "none", ret |-> NoManifest, crawled |-> FALSE, pages |-> 0,
     listError |-> FALSE, listed |-> {},
     pre |-> [manifest |-> NoManifest, time |-> 0]]

\* The crawl of the call has drained every prefix
CrawlDone(c) == c.prefix > Len(BasePrefixes(indexed_prefixes))

\* A get_manifest_cached whose crawl goes on from the packs of the manifest it has.
GetStart_keep_packs ==
    /\ mcall.pc = "idle"
    /\ mcall' = IF \/ cache_manifest = NoManifest
                   \/ clock - cache_time > MANIFEST_CACHE_TTL_SECONDS
                THEN [IdleCall EXCEPT !.pc = "crawling", !.now = clock,
                          !.packs = IF cache_manifest = NoManifest THEN <<>>
                                    ELSE cache_manifest.packs,
                          !.pre = [manifest |-> cache_manifest, time |-> cache_time]]
                ELSE [IdleCall EXCEPT !.now = clock, !.result = "returned",
                          !.ret = cache_manifest,
                          !.pre = [manifest |-> cache_manifest, time |-> cache_time]]
    /\ UNCHANGED <<sideVars, date, cacheVars, keyVars, clock, bucket, indexed_prefixes,
                   cache_manifest, cache_time>>

\* A get_manifest_cached whose test leaves out the age of the manifest.
GetStart_no_ttl ==
    /\ mcall.pc = "idle"
    /\ mcall' = IF cache_manifest = NoManifest
                THEN [IdleCall EXCEPT !.pc = "crawling", !.now = clock,
                          !.pre = [manifest |-> cache_manifest, time |-> cache_time]]
                ELSE [IdleCall EXCEPT !.now = clock, !.result = "returned",
                          !.ret = cache_manifest,
                          !.pre = [manifest |-> cache_manifest, time |-> cache_time]]
    /\ UNCHANGED <<sideVars, date, cacheVars, keyVars, clock, bucket, indexed_prefixes,
                   cache_manifest, cache_time>>

\* A get_manifest_cached that rebuilds on every call.
GetStart_always_crawl ==
    /\ mcall.pc = "idle"
    /\ mcall' = [IdleCall EXCEPT !.pc = "crawling", !.now = clock,
                     !.pre = [manifest |-> cache_manifest, time |-> cache_time]]
    /\ UNCHANGED <<sideVars, date, cacheVars, keyVars, clock, bucket, indexed_prefixes,
                   cache_manifest, cache_time>>

\* get_manifest_cached is called: it reads the clock and either starts
\* build_manifest (no manifest yet, or older than the TTL) or returns the cached one.
GetStart ==
    /\ mcall.pc = "idle"
    /\ mcall' = IF \/ cache_manifest = NoManifest
                   \/ clock - cache_time > MANIFEST_CACHE_TTL_SECONDS
                THEN [IdleCall EXCEPT !.pc = "crawling", !.now = clock,
                          !.pre = [manifest |-> cache_manifest, time |-> cache_time]]
                ELSE [IdleCall EXCEPT !.now = clock, !.result = "returned",
                          !.ret = cache_manifest,
                          !.pre = [manifest |-> cache_manifest, time |-> cache_time]]
    /\ UNCHANGED <<sideVars, date, cacheVars, keyVars, clock, bucket, indexed_prefixes,
                   cache_manifest, cache_time>>

\* _iter_all_objects: one list_objects call answers; its objects go through the
\* loop body, and the crawl moves to the next page or the next prefix.
ListPage ==
    /\ mcall.pc = "crawling"
    /\ ~CrawlDone(mcall)
    /\ LET r == list_objects(bucket, BasePrefixes(indexed_prefixes)[mcall.prefix],
                             mcall.token)
       IN  mcall' = [mcall EXCEPT
                        !.packs = AddObjects(@, r.Contents),
                        !.listed = @ \cup {r.Contents[n].Key : n \in 1..Len(r.Contents)},
                        !.pages = @ + 1,
                        !.token = IF r.IsTruncated THEN r.NextContinuationToken ELSE 0,
                        !.prefix = IF r.IsTruncated THEN @ ELSE @ + 1]
    /\ UNCHANGED <<sideVars, date, cacheVars, keyVars, clock, bucket, indexed_prefixes,
                   cache_manifest, cache_time>>

\* A failed crawl that stores what it has built so far.
ListFails_poison ==
    /\ mcall.pc = "crawling"
    /\ ~CrawlDone(mcall)
    /\ mcall' = [mcall EXCEPT !.pc = "idle", !.result = "raised", !.listError = TRUE]
    /\ cache_manifest' = FinishManifest(mcall.packs)
    /\ cache_time' = mcall.now
    /\ UNCHANGED <<sideVars, date, cacheVars, keyVars, clock, bucket, indexed_prefixes>>

\* A list_objects call raises: the exception leaves build_manifest and
\* get_manifest_cached, before the assignments to the cache.
ListFails ==
    /\ mcall.pc = "crawling"
    /\ ~CrawlDone(mcall)
    /\ mcall' = [mcall EXCEPT !.pc = "idle", !.result = "raised", !.listError = TRUE]
    /\ UNCHANGED <<sideVars, date, cacheVars, keyVars, clock, bucket, indexed_prefixes,
                   cache_manifest, cache_time>>

\* build_manifest returns; get_manifest_cached stores the manifest with the time
\* it read at its start, and returns it.
GetFinish ==
    /\ mcall.pc = "crawling"
    /\ CrawlDone(mcall)
    /\ LET data == FinishManifest(mcall.packs)
       IN  /\ cache_manifest' = data
           /\ cache_time' = mcall.now
           /\ mcall' = [mcall EXCEPT !.pc = "idle", !.result = "returned",
                                     !.ret = data, !.crawled = TRUE]
    /\ UNCHANGED <<sideVars, date, cacheVars, keyVars, clock, bucket, indexed_prefixes>>

\* A second passes.
Tick ==
    /\ clock < MaxTime
    /\ clock' = clock + 1
    /\ UNCHANGED <<sideVars, date, cacheVars, keyVars, bucket, indexed_prefixes,
                   cache_manifest, cache_time, mcall>>

\* Whoever maintains the catalog uploads or deletes an object.
BucketChange ==
    /\ \E i \in 1..Len(CatalogObjects) :
         bucket' = IF CatalogObjects[i] \in bucket
                   THEN bucket \ {CatalogObjects[i]}
                   ELSE bucket \cup {CatalogObjects[i]}
    /\ UNCHANGED <<sideVars, date, cacheVars, keyVars, clock, indexed_prefixes,
                   cache_manifest, cache_time, mcall>>

(***************************************************************************)
(* build_manifest as one call on a bucket that does not move.              *)
(***************************************************************************)
\* _iter_all_objects: the objects of every page of the listing under the prefix
RECURSIVE _iter_all_objects(_, _, _)
_iter_all_objects(b, prefix, token) ==
    LET r == list_objects(b, prefix, token)
    IN  r.Contents \o (IF r.IsTruncated
                       THEN _iter_all_objects(b, prefix, r.NextContinuationToken)
                       ELSE <<>>)

\* build_manifest, the loop over the prefixes
RECURSIVE CrawlPrefixes(_, _, _)
CrawlPrefixes(packs, b, prefixes) ==
    IF prefixes = <<>> THEN packs
    ELSE CrawlPrefixes(AddObjects(packs, _iter_all_objects(b, Head(prefixes), 0)),
                       b, Tail(prefixes))

build_manifest(b, cfg) == FinishManifest(CrawlPrefixes(<<>>, b, BasePrefixes(cfg)))

\* The prefix configurations of the calls of build_manifest on its own: those of
\* PrefixConfigs and one whose prefixes are listed against the sort order.
BuildConfigs == PrefixConfigs \cup { << <<"Cat2">>, <<"Cat1">> >> }

\* build_manifest is called and returns.
BuildManifest ==
    /\ manifest_out' = build_manifest(bucket, indexed_prefixes)
    /\ UNCHANGED <<date, cacheVars, keyVars, manVars, resVars, loopVars, pageVars, callVars>>

(***************************************************************************)
(* The manifest requests on the event loop.  get_manifest and presign are  *)
(* coroutines that call get_manifest_cached directly; a coroutine runs on  *)
(* the loop's thread until it awaits, and get_manifest_cached, with its    *)
(* crawl, has no await.  Requests that arrive meanwhile wait for the loop. *)
(***************************************************************************)
IdleGet ==
    [pc |-> "idle", now |-> 0, seen |-> [manifest |-> NoManifest, time |-> 0],
     result |-> "none", ret |-> NoManifest]

\* A request arrives and its handler is scheduled on the loop.
GetArrives(c) ==
    /\ gets[c].pc = "idle"
    /\ \A d \in 1..(c - 1) : gets[d].pc # "idle"
    /\ gets' = [gets EXCEPT ![c].pc = "waiting"]
    /\ UNCHANGED <<date, cacheVars, keyVars, manVars, resVars, builds, buildVars,
                   pageVars, callVars>>

\* No handler is inside get_manifest_cached.
LoopFree_between_assignments == \A c \in 1..MaxReq : gets[c].pc # "crawling"

\* No handler is inside get_manifest_cached: the loop can run another handler.
LoopFree == \A c \in 1..MaxReq : gets[c].pc \notin {"crawling", "assigning"}

\* A handler that runs on a thread of its own, whatever the others do.
GetRuns_threaded(c) ==
    /\ gets[c].pc = "waiting"
    /\ LET need == \/ cache_manifest = NoManifest
                    \/ clock - cache_time > MANIFEST_CACHE_TTL_SECONDS
           seen == [manifest |-> cache_manifest, time |-> cache_time]
       IN  gets' = [gets EXCEPT ![c] =
                       IF need
                       THEN [@ EXCEPT !.pc = "crawling", !.now = clock, !.seen = seen]
                       ELSE [@ EXCEPT !.pc = "done", !.now = clock, !.seen = seen,
                                      !.result = "returned", !.ret = cache_manifest]]
    /\ UNCHANGED <<date, cacheVars, keyVars, manVars, resVars, builds, buildVars,
                   pageVars, callVars>>

\* The loop runs the handler that has waited longest: get_manifest_cached reads
\* the clock and the cache, and returns the cached manifest or goes into
\* build_manifest.
GetRuns(c) ==
    /\ gets[c].pc = "waiting"
    /\ LoopFree
    /\ \A d \in 1..(c - 1) : gets[d].pc # "waiting"
    /\ LET need == \/ cache_manifest = NoManifest
                    \/ clock - cache_time > MANIFEST_CACHE_TTL_SECONDS
           seen == [manifest |-> cache_manifest, time |-> cache_time]
       IN  gets' = [gets EXCEPT ![c] =
                       IF need
                       THEN [@ EXCEPT !.pc = "crawling", !.now = clock, !.seen = seen]
                       ELSE [@ EXCEPT !.pc = "done", !.now = clock, !.seen = seen,
                                      !.result = "returned", !.ret = cache_manifest]]
    /\ UNCHANGED <<date, cacheVars, keyVars, manVars, resVars, builds, buildVars,
                   pageVars, callVars>>

\* build_manifest returns and _cache_manifest is assigned, or a list_objects
\* call raised and the exception leaves get_manifest_cached.
GetBuilds(c) ==
    /\ gets[c].pc = "crawling"
    /\ \/ /\ cache_manifest' = build_manifest(bucket, indexed_prefixes)
          /\ gets' = [gets EXCEPT ![c].pc = "assigning"]
       \/ /\ gets' = [gets EXCEPT ![c].pc = "done", ![c].result = "raised"]
          /\ UNCHANGED cache_manifest
    /\ UNCHANGED <<date, cacheVars, keyVars, clock, bucket, indexed_prefixes,
                   cache_time, mcall, resVars, builds, buildVars, pageVars, callVars>>

\* _cache_time is assigned and get_manifest_cached returns _cache_manifest.
GetAssignsTime(c) ==
    /\ gets[c].pc = "assigning"
    /\ cache_time' = gets[c].now
    /\ builds' = builds \cup {[manifest |-> cache_manifest, time |-> gets[c].now]}
    /\ gets' = [gets EXCEPT ![c].pc = "done", ![c].result = "returned",
                            ![c].ret = cache_manifest]
    /\ UNCHANGED <<date, cacheVars, keyVars, clock, bucket, indexed_prefixes,
                   cache_manifest, mcall, resVars, buildVars, pageVars, callVars>>

(***************************************************************************)
(* paginate (manifest_service.py) as a call on its own.                    *)
(***************************************************************************)
Max(a, b) == IF a >= b THEN a ELSE b
Min(a, b) == IF a <= b THEN a ELSE b

\* math.ceil(a / b) for a >= 0 and b > 0
Ceil(a, b) == (a + b - 1) \div b

\* items[start:end] for 0 <= start <= end
Slice(items, start, end) == SubSeq(items, start + 1, Min(end, Len(items)))

\* A paginate that counts only the full pages.
paginate_floor(items, page, page_size) ==
    LET total == Len(items)
        size == IF page_size <= 0 THEN 50 ELSE page_size
        total_pages == IF total # 0 THEN Max(1, total \div size) ELSE 1
        clamped == Max(1, Min(page, total_pages))
        start == (clamped - 1) * size
        end == start + size
    IN  [items |-> Slice(items, start, end), total |-> total,
         page |-> clamped, total_pages |-> total_pages]

\* A paginate that slices the page it was asked for.
paginate_noclamp(items, page, page_size) ==
    LET total == Len(items)
        size == IF page_size <= 0 THEN 50 ELSE page_size
        total_pages == IF total # 0 THEN Max(1, Ceil(total, size)) ELSE 1
        start == (Max(1, page) - 1) * size
    IN  [items |-> Slice(items, start, start + size), total |-> total,
         page |-> page, total_pages |-> total_pages]

\* paginate: (items_page, total, page, total_pages)
paginate(items, page, page_size) ==
    LET total == Len(items)
        size == IF page_size <= 0 THEN 50 ELSE page_size
        total_pages == IF total # 0 THEN Max(1, Ceil(total, size)) ELSE 1
        clamped == Max(1, Min(page, total_pages))
        start == (clamped - 1) * size
        end == start + size
    IN  [items |-> Slice(items, start, end), total |-> total,
         page |-> clamped, total_pages |-> total_pages]

\* No call made yet
NoCall == [op |-> "none"]

\* paginate on its own: no call made yet
IdlePage ==
    [pc |-> "idle", items |-> <<>>, page |-> 1, page_size |-> 1,
     out |-> [items |-> <<>>, total |-> 0, page |-> 1, total_pages |-> 1]]

\* The arguments of the calls: lists of 0..MaxItems items and of 25 and 51 items,
\* pages below, inside and past the range, page sizes negative, zero and positive.
ItemCounts == (0..MaxItems) \cup {25, 51}
PageNumbers == (-1..MaxPage) \cup {99}
PageSizes == (-1..MaxPageSize) \cup {10}

\* paginate is called and returns.
Paginate ==
    /\ \E n \in ItemCounts, page \in PageNumbers, page_size \in PageSizes :
         LET items == [k \in 1..n |-> k]
         IN  pg' = [pc |-> "done", items |-> items, page |-> page,
                    page_size |-> page_size, out |-> paginate(items, page, page_size)]
    /\ UNCHANGED <<date, cacheVars, keyVars, manVars, resVars, loopVars, buildVars, callVars>>

(***************************************************************************)
(* filter_packs (manifest_service.py) as a call on its own.                *)
(***************************************************************************)
\* bool(s) of a str | None argument: None and "" are falsy
Truthy(s) == s # None /\ s # ""

\* filter_packs: `if category:` and `if target:` apply a filter only when its
\* value is truthy.
filter_packs(data, category, target) ==
    LET packs == data.packs
        byCategory == IF Truthy(category)
                      THEN SelectSeq(packs, LAMBDA p : p.category = category)
                      ELSE packs
    IN  IF Truthy(target)
        THEN SelectSeq(byCategory, LAMBDA p : p.target = target)
        ELSE byCategory

\* The filter values of the calls: not provided, empty, names of the catalog in
\* their case and in another case, a name no pack has
CategoryFilters == {None, "", "Cat1", "Cat2", "cat1"}
TargetFilters == {None, "", "T1", "T2", "Cat1"}

\* filter_packs is called on the manifest of the bucket and returns.
FilterPacks ==
    /\ \E category \in CategoryFilters, target \in TargetFilters :
         LET data == build_manifest(bucket, indexed_prefixes)
         IN  call' = [op |-> "filter_packs", data |-> data, category |-> category,
                      target |-> target, out |-> filter_packs(data, category, target)]
    /\ UNCHANGED <<date, cacheVars, keyVars, manVars, resVars, loopVars, buildVars,
                   pageVars>>

(***************************************************************************)
(* The keys of edit_qwen requests (main.py), two requests side by side.    *)
(***************************************************************************)
\* The byte sequences of 1..n bytes over two byte values
ByteSeqs(n) == UNION {[1..k -> {1, 2}] : k \in 1..n}

\* The edit_qwen requests of the comparison: one prompt and one setting of the
\* numeric parameters, image_1 of 1..MaxBytes bytes, image_2 absent or of
\* 1..MaxBytes bytes, image_3 absent or one byte
QwenInputs ==
    { EditQwenInput("p", i1, i2, i3) :
        i1 \in ByteSeqs(MaxBytes), i2 \in ByteSeqs(MaxBytes) \cup {NoBytes},
        i3 \in {NoBytes, <<1>>} }

\* Two edit_qwen requests reach the key derivation on the same day.
QwenKeys ==
    /\ call = NoCall
    /\ \E a \in QwenInputs, b \in QwenInputs :
         call' = [op |-> "qwen_keys", a |-> a, b |-> b,
                  key_a |-> HandlerKey(a, date), key_b |-> HandlerKey(b, date)]
    /\ UNCHANGED <<date, cacheVars, keyVars, manVars, resVars, loopVars, buildVars,
                   pageVars>>

(***************************************************************************)
(* _iter_all_objects page by page on a bucket that does not move: `token`  *)
(* is the loop's variable (0 for None), `tokens` the continuation tokens   *)
(* passed to list_objects so far, `yielded` the records handed to the      *)
(* consumer.                                                               *)
(***************************************************************************)
DrainPrefixes == {<<>>, <<"Cat1">>, <<"Cat2">>, <<"Cat1", "T1">>}

\* _iter_all_objects(prefix) is called: token = None.
DrainStart ==
    /\ call = NoCall
    /\ \E prefix \in DrainPrefixes :
         call' = [op |-> "drain", pc |-> "listing", prefix |-> prefix, token |-> 0,
                  tokens |-> <<>>, yielded |-> <<>>]
    /\ UNCHANGED <<date, cacheVars, keyVars, manVars, resVars, loopVars, buildVars,
                   pageVars>>

\* A lister that stops after its first page.
DrainPage_first_page_only ==
    /\ call.op = "drain"
    /\ call.pc = "listing"
    /\ Len(call.tokens) < MaxDrainCalls
    /\ LET r == list_objects(bucket, call.prefix, call.token)
       IN  call' = [call EXCEPT !.tokens = Append(@, call.token),
                                !.yielded = @ \o r.Contents,
                                !.pc = "done"]
    /\ UNCHANGED <<date, cacheVars, keyVars, manVars, resVars, loopVars, buildVars,
                   pageVars>>

\* One turn of the while loop: list_objects(prefix, token), the records of the
\* page are yielded, and the loop goes on with NextContinuationToken if the page
\* is truncated and ends otherwise.
DrainPage ==
    /\ call.op = "drain"
    /\ call.pc = "listing"
    /\ Len(call.tokens) < MaxDrainCalls
    /\ LET r == list_objects(bucket, call.prefix, call.token)
       IN  call' = [call EXCEPT !.tokens = Append(@, call.token),
                                !.yielded = @ \o r.Contents,
                                !.token = IF r.IsTruncated
                                          THEN r.NextContinuationToken ELSE @,
                                !.pc = IF r.IsTruncated THEN "listing" ELSE "done"]
    /\ UNCHANGED <<date, cacheVars, keyVars, manVars, resVars, loopVars, buildVars,
                   pageVars>>

(***************************************************************************)
(* The loop of build_manifest over one listing, taken on its own, for      *)
(* records of every shape a bucket can hold.                               *)
(***************************************************************************)
\* Records a listing can hold: plain files of two packs, an upper-case
\* extension, a two-part extension, a directory marker, a file of another
\* extension, a key of two segments and a key of four
ListedObjects ==
    { Obj(Key(<<"Cat1", "T1">>, <<"a", "cube">>), 100, "e1"),
      Obj(Key(<<"Cat1", "T1">>, <<"B", "XMP">>), 50, "e2"),
      Obj(Key(<<"Cat1", "T1">>, <<"p", "onpreset", "zip">>), 20, "e3"),
      Obj(Key(<<"Cat1", "T1">>, <<"">>), 0, "e4"),
      Obj(Key(<<"Cat1", "T1">>, <<"ignored", "txt">>), 7, "e5"),
      Obj(Key(<<"Cat1">>, <<"x", "cube">>), 5, "e6"),
      Obj(Key(<<"Cat2", "T2", "sub">>, <<"c", "onpreset">>), 10, "e7") }

Listings == UNION {[1..k -> ListedObjects] : k \in 0..MaxListing}

\* The loop runs once over a listing, starting from no packs.
IndexListing ==
    /\ call = NoCall
    /\ \E objs \in Listings :
         call' = [op |-> "index", listed |-> objs, packs |-> AddObjects(<<>>, objs)]
    /\ UNCHANGED <<date, cacheVars, keyVars, manVars, resVars, loopVars, buildVars,
                   pageVars>>

(***************************************************************************)
(* The producers (ai_service/inference_service.py, inference_service.py),  *)
(* each taken on its own.  The endpoint URL and the token are what         *)
(* config.py read from the environment: None when the variable is unset,   *)
(* "" when it is set to nothing.  A result tells whether the call raised   *)
(* and how many requests it posted to the backend; r1 and r2 are the       *)
(* status codes the backend answers the first and the second post with.    *)
(***************************************************************************)
\* `not value` of a configuration value
Unset(v) == v = None \/ v = ""

\* call_restore_from_bytes: one check of the URL and the token, a post, and a
\* second post with the other payload on 400 or 415.
call_restore_from_bytes(url, token, r1, r2) ==
    IF Unset(url) \/ Unset(token) THEN [raised |-> TRUE, sent |-> 0]
    ELSE IF r1 = 200 THEN [raised |-> FALSE, sent |-> 1]
    ELSE IF r1 \in {400, 415} THEN [raised |-> (r2 # 200), sent |-> 2]
    ELSE [raised |-> TRUE, sent |-> 1]

\* call_remove_bg_from_bytes, call_edit_by_text_from_bytes and
\* call_arcane_style_from_bytes: the check of the URL, the check of the token,
\* one post, raise_for_status.
call_remove_bg_from_bytes(url, token, r1, r2) ==
    IF Unset(url) THEN [raised |-> TRUE, sent |-> 0]
    ELSE IF Unset(token) THEN [raised |-> TRUE, sent |-> 0]
    ELSE [raised |-> (r1 # 200), sent |-> 1]

\* call_sdxl_turbo: no check; HEADERS was built from the token as it is
\* ("Bearer None" when it is unset).  httpx refuses a URL that is None or has
\* no scheme before it sends anything; otherwise the request is posted, and
\* posted again with the flat payload on 400.
call_sdxl_turbo(url, token, r1, r2) ==
    IF Unset(url) THEN [raised |-> TRUE, sent |-> 0]
    ELSE IF r1 = 400 THEN [raised |-> (r2 # 200), sent |-> 2]
    ELSE [raised |-> (r1 # 200), sent |-> 1]

BackendStatuses == {200, 400, 415, 500}

\* What a response can carry: a body that is not JSON, or a JSON object whose
\* "image" and "outputs" fields are each absent, the empty string, base64 text,
\* or text that b64decode refuses
FieldStates == {"absent", "empty", "base64", "invalid"}
ResponseBodies ==
    [json : {TRUE}, image : FieldStates, outputs : FieldStates]
        \cup {[json |-> FALSE, image |-> "absent", outputs |-> "absent"]}

\* call_restore_from_bytes from data = resp.json() on: resp.json() is outside
\* any try; out_b64 = data.get("image") or data.get("outputs"), and b64decode
\* raises on None and on invalid text.
restore_parse(body, sent) ==
    IF ~body.json THEN [raised |-> TRUE, error |-> "Exception", sent |-> sent]
    ELSE IF body.image = "absent" /\ body.outputs = "absent"
    THEN [raised |-> TRUE, error |-> "InferenceError", sent |-> sent]
    ELSE LET out_b64 == IF body.image \in {"base64", "invalid"} THEN body.image
                        ELSE body.outputs
         IN  IF out_b64 \in {"absent", "invalid"}
             THEN [raised |-> TRUE, error |-> "InferenceError", sent |-> sent]
             ELSE [raised |-> FALSE, error |-> "none", sent |-> sent]

\* A restore producer that tries the other payload after any response but 200.
restore_exchange_retry_any(r1, r2, body) ==
    IF r1 = 0 THEN [raised |-> TRUE, error |-> "Exception", sent |-> 1]
    ELSE IF r1 = 200 THEN restore_parse(body, 1)
    ELSE IF r2 = 0 THEN [raised |-> TRUE, error |-> "Exception", sent |-> 2]
    ELSE IF r2 # 200 THEN [raised |-> TRUE, error |-> "InferenceError", sent |-> 2]
    ELSE restore_parse(body, 2)

\* call_restore_from_bytes once it is configured: the post, the second post
\* with the other payload on 400 or 415, and the reading of the last response.
\* A status of 0 stands for a post that httpx ends with an exception; `body` is
\* what the last response carries.
restore_exchange(r1, r2, body) ==
    IF r1 = 0 THEN [raised |-> TRUE, error |-> "Exception", sent |-> 1]
    ELSE IF r1 = 200 THEN restore_parse(body, 1)
    ELSE IF r1 \in {400, 415}
    THEN IF r2 = 0 THEN [raised |-> TRUE, error |-> "Exception", sent |-> 2]
         ELSE IF r2 # 200
         THEN [raised |-> TRUE, error |-> "InferenceError", sent |-> 2]
         ELSE restore_parse(body, 2)
    ELSE [raised |-> TRUE, error |-> "InferenceError", sent |-> 1]

\* The restore producer is called once and the backend answers.
CallRestore ==
    /\ call = NoCall
    /\ \E r1 \in BackendStatuses \cup {0}, r2 \in BackendStatuses \cup {0},
          body \in ResponseBodies :
         LET c == restore_exchange(r1, r2, body)
         IN  call' = [op |-> "restore_exchange", r1 |-> r1, r2 |-> r2, body |-> body,
                      raised |-> c.raised, error |-> c.error, sent |-> c.sent]
    /\ UNCHANGED <<date, cacheVars, keyVars, manVars, resVars, loopVars, buildVars,
                   pageVars>>

Capabilities == {"restore", "remove_bg", "edit_by_text", "arcane_style", "sdxl_turbo"}

CallOf(cap, url, token, r1, r2) ==
    CASE cap = "restore" -> call_restore_from_bytes(url, token, r1, r2)
      [] cap = "sdxl_turbo" -> call_sdxl_turbo(url, token, r1, r2)
      [] OTHER -> call_remove_bg_from_bytes(url, token, r1, r2)

ConfigValues == {None, "", "set"}

\* A capability is called under some configuration.  The handlers go on to
\* get_or_put_cached only when their producer returned; call_sdxl_turbo has no
\* handler.
CallCapability ==
    /\ \E cap \in Capabilities, url \in ConfigValues, token \in ConfigValues,
          r1 \in BackendStatuses, r2 \in BackendStatuses :
         LET c == CallOf(cap, url, token, r1, r2)
         IN  call' = [op |-> "capability", cap |-> cap, url |-> url, token |-> token,
                      r1 |-> r1, r2 |-> r2, raised |-> c.raised, sent |-> c.sent,
                      to_cache |-> (cap # "sdxl_turbo" /\ ~c.raised)]
    /\ UNCHANGED <<date, cacheVars, keyVars, manVars, resVars, loopVars, buildVars,
                   pageVars>>

(***************************************************************************)
(* require_api_key (security.py), the dependency of the protected routes.  *)
(* A text is the sequence of its characters; a header is absent (None) or  *)
(* has a text.                                                             *)
(***************************************************************************)
Chars == {" ", "a", "b"}
Texts == UNION {[1..k -> Chars] : k \in 0..MaxHeader}

\* str.strip() for blanks
RECURSIVE LStrip(_)
LStrip(t) == IF t # <<>> /\ Head(t) = " " THEN LStrip(Tail(t)) ELSE t
RECURSIVE RStrip(_)
RStrip(t) ==
    IF t # <<>> /\ t[Len(t)] = " " THEN RStrip(SubSeq(t, 1, Len(t) - 1)) ELSE t
Strip(t) == RStrip(LStrip(t))

\* config.API_KEY: os.getenv("API_KEY", "").strip()
ApiKeys == {Strip(t) : t \in Texts}

NoHeader == [present |-> FALSE, text |-> <<>>]
ApiKeyHeaders == {NoHeader} \cup [present : {TRUE}, text : Texts]

\* An Authorization header is "<scheme> <rest>"; str.lower() of the schemes
AuthSchemes == {"ApiKey", "APIKEY", "Bearer"}
LowerScheme(sc) == IF sc \in {"ApiKey", "APIKEY"} THEN "apikey" ELSE "bearer"
AuthorizationHeaders ==
    {[present |-> FALSE, scheme |-> "Bearer", rest |-> <<>>]}
        \cup [present : {TRUE}, scheme : AuthSchemes, rest : Texts]

\* A require_api_key that only compares the key with the configured one.
require_api_key_no_empty_check(x_api_key, authorization, API_KEY) ==
    LET has == \/ (x_api_key.present /\ x_api_key.text # <<>>)
               \/ (authorization.present /\ LowerScheme(authorization.scheme) = "apikey")
        key == IF x_api_key.present /\ x_api_key.text # <<>>
               THEN Strip(x_api_key.text)
               ELSE Strip(authorization.rest)
    IN  IF ~has \/ key # API_KEY THEN 401 ELSE 200

\* require_api_key: the key is the stripped X-API-Key when that header is
\* there and not empty, or else what follows "apikey " (in any case) in the
\* Authorization header, stripped; 401 unless the key is not empty and equals
\* API_KEY.  200 stands for `return True`.
require_api_key(x_api_key, authorization, API_KEY) ==
    LET has == \/ (x_api_key.present /\ x_api_key.text # <<>>)
               \/ (authorization.present /\ LowerScheme(authorization.scheme) = "apikey")
        key == IF x_api_key.present /\ x_api_key.text # <<>>
               THEN Strip(x_api_key.text)
               ELSE Strip(authorization.rest)
    IN  IF ~has \/ key = <<>> \/ key # API_KEY THEN 401 ELSE 200

\* A request reaches a protected route of a process configured with some key.
RequireApiKey ==
    /\ call = NoCall
    /\ \E x \in ApiKeyHeaders, a \in AuthorizationHeaders, k \in ApiKeys :
         call' = [op |-> "require_api_key", x_api_key |-> x, authorization |-> a,
                  API_KEY |-> k, status |-> require_api_key(x, a, k)]
    /\ UNCHANGED <<date, cacheVars, keyVars, manVars, resVars, loopVars, buildVars,
                   pageVars>>

(***************************************************************************)
(* The presign handler (main.py).  It has no await: the call of            *)
(* get_manifest_cached, with a rebuild when one is due, and the lookups    *)
(* run as one step.                                                        *)
(***************************************************************************)
\* A get_manifest_cached that stamps the cache with the time of the call before
\* it builds.
get_manifest_cached_time_first(cm, ct, now, b, cfg, listOk) ==
    IF cm = NoManifest \/ now - ct > MANIFEST_CACHE_TTL_SECONDS
    THEN IF listOk
         THEN LET data == build_manifest(b, cfg)
              IN  [raised |-> FALSE, data |-> data, cache_manifest |-> data,
                   cache_time |-> now, crawled |-> TRUE]
         ELSE [raised |-> TRUE, data |-> NoManifest, cache_manifest |-> cm,
               cache_time |-> now, crawled |-> TRUE]
    ELSE [raised |-> FALSE, data |-> cm, cache_manifest |-> cm, cache_time |-> ct,
          crawled |-> FALSE]

\* get_manifest_cached as one call at time `now` on bucket b: the manifest it
\* returns and the cache after it; listOk says whether the list_objects calls
\* of a rebuild succeed.
get_manifest_cached(cm, ct, now, b, cfg, listOk) ==
    IF cm = NoManifest \/ now - ct > MANIFEST_CACHE_TTL_SECONDS
    THEN IF listOk
         THEN LET data == build_manifest(b, cfg)
              IN  [raised |-> FALSE, data |-> data, cache_manifest |-> data,
                   cache_time |-> now, crawled |-> TRUE]
         ELSE [raised |-> TRUE, data |-> NoManifest, cache_manifest |-> cm,
               cache_time |-> ct, crawled |-> TRUE]
    ELSE [raised |-> FALSE, data |-> cm, cache_manifest |-> cm, cache_time |-> ct,
          crawled |-> FALSE]

\* The /manifest handler up to the manifest it gets: a call of
\* get_manifest_cached; the call remembers whether the call before it raised.
GetManifest ==
    /\ \E listOk \in BOOLEAN :
         LET g == get_manifest_cached(cache_manifest, cache_time, clock, bucket,
                                      indexed_prefixes, listOk)
         IN  /\ cache_manifest' = g.cache_manifest
             /\ cache_time' = g.cache_time
             /\ call' = [op |-> "get_manifest", raised |-> g.raised,
                         crawled |-> g.crawled, ret |-> g.data, now |-> clock,
                         after_failure |-> (call.op = "get_manifest" /\ call.raised)]
    /\ UNCHANGED <<date, cacheVars, keyVars, clock, bucket, indexed_prefixes, mcall,
                   resVars, loopVars, buildVars, pageVars>>

\* The request model the handler gets: models.py defines class PresignReq twice,
\* and the later definition, with the single field `key`, is the one the name
\* is bound to; a `pack_id` in the body is dropped.
PresignReq(body) == [key |-> body.key]

\* presign after get_manifest_cached returned `data`: 0 stands for an issued
\* URL, otherwise the HTTP status.  The generator expression reads req.pack_id
\* for the first pack it meets, which raises AttributeError on a request model
\* without that field.
presign_lookup(data, r) ==
    IF data.packs = <<>> THEN 404
    ELSE IF "pack_id" \notin DOMAIN r THEN 500
    ELSE LET at == PackIndex(data.packs, r.pack_id)
         IN  IF at = 0 THEN 404
             ELSE IF ~\E n \in 1..Len(data.packs[at].files) :
                        data.packs[at].files[n].key = r.key
                  THEN 404
                  ELSE 0

\* The bodies of the presign requests: packs and keys of the catalog, a pack
\* and a key the catalog does not have
PresignBodies ==
    [pack_id : {<<"Cat1", "T1">>, <<"Cat9", "T9">>},
     key : {CatalogObjects[1].Key, CatalogObjects[3].Key, CatalogObjects[4].Key}]

\* A presign request is served.
Presign ==
    /\ \E body \in PresignBodies, listOk \in BOOLEAN :
         LET g == get_manifest_cached(cache_manifest, cache_time, clock, bucket,
                                      indexed_prefixes, listOk)
             r == PresignReq(body)
             st == IF g.raised THEN 500 ELSE presign_lookup(g.data, r)
         IN  /\ cache_manifest' = g.cache_manifest
             /\ cache_time' = g.cache_time
             /\ call' = [op |-> "presign", body |-> body, raised |-> g.raised,
                         data |-> g.data,
                         status |-> IF st = 0 THEN 200 ELSE st,
                         issued |-> (st = 0),
                         url |-> presign_get(IF st = 0 THEN r.key ELSE NoKey)]
    /\ UNCHANGED <<date, cacheVars, keyVars, clock, bucket, indexed_prefixes, mcall,
                   resVars, loopVars, buildVars, pageVars>>

(***************************************************************************)
(* Resolve calls of several workers on one bucket.  Within one process     *)
(* get_or_put_cached runs without interruption (it has no await), but the  *)
(* bucket is shared by every worker process of the gateway: the head_object*)
(* and the put_object of one call are two requests to the store, and the   *)
(* requests of another worker's call can reach the store between them.     *)
(***************************************************************************)
IdleResolve ==
    [inp |-> NoInput, pc |-> "idle", out |-> NoOutput, key |-> NoKey,
     probe |-> "none", hit |-> FALSE, status |-> 0, put |-> "none"]

\* The request the workers serve in this specification: every call is for the
\* same (operation, content, params)
ResolveInputs == { EditByTextInput(<<1>>, "p") }

\* Worker i's handler passes its checks and calls its producer (the calls are
\* numbered in the order of their arrival).
ResolveInvoke(i) ==
    /\ rcall[i].pc = "idle"
    /\ \A j \in 1..(i - 1) : rcall[j].pc # "idle"
    /\ \E inp \in ResolveInputs :
         /\ FrontStatus(inp, TRUE) = 0
         /\ rcall' = [rcall EXCEPT ![i] = [@ EXCEPT !.inp = inp, !.pc = "producing"]]
    /\ UNCHANGED <<date, store, req, keyVars, manVars, putlog, loopVars, buildVars, pageVars, callVars>>

\* The producer answers: on an error the handler raises; otherwise it derives the
\* key and get_or_put_cached sends its head_object.
ResolveProduced(i) ==
    /\ rcall[i].pc = "producing"
    /\ \/ \E outcome \in ProducerOutcomes(rcall[i].inp) \ {"ok"} :
            rcall' = [rcall EXCEPT ![i] =
                         [@ EXCEPT !.pc = "done",
                                   !.status = ProducerErrorStatus(outcome)]]
       \/ \E out \in Outputs :
            rcall' = [rcall EXCEPT ![i] =
                         [@ EXCEPT !.pc = "probing", !.out = out,
                                   !.key = HandlerKey(rcall[i].inp, date)]]
    /\ UNCHANGED <<date, store, req, keyVars, manVars, putlog, loopVars, buildVars, pageVars, callVars>>

\* The store answers the head_object: when the object is there the call returns
\* (url, key, True); on any exception it goes on to upload_bytes_to_r2.
ResolveHead(i) ==
    /\ rcall[i].pc = "probing"
    /\ \E probe \in HeadOutcomes(store, rcall[i].key) :
         IF probe = "found"
         THEN LET got == get_or_put_cached(store, rcall[i].out.bytes, rcall[i].key,
                             HandlerContentType(rcall[i].inp, rcall[i].out),
                             HandlerMetadata(rcall[i].inp), probe, TRUE)
              IN  rcall' = [rcall EXCEPT ![i] =
                               [@ EXCEPT !.pc = "done", !.probe = probe,
                                         !.hit = got.hit, !.key = got.key,
                                         !.status = 200]]
         ELSE rcall' = [rcall EXCEPT ![i] = [@ EXCEPT !.pc = "putting", !.probe = probe]]
    /\ UNCHANGED <<date, store, req, keyVars, manVars, putlog, loopVars, buildVars, pageVars, callVars>>

\* The store answers the put_object of the except branch, on the bucket as it is
\* by now; the call returns (url, key, False), or the exception leaves the handler.
ResolvePut(i) ==
    /\ rcall[i].pc = "putting"
    /\ \E putOk \in BOOLEAN :
         LET got == get_or_put_cached(store, rcall[i].out.bytes, rcall[i].key,
                        HandlerContentType(rcall[i].inp, rcall[i].out),
                        HandlerMetadata(rcall[i].inp), rcall[i].probe, putOk)
         IN  /\ store' = got.store
             /\ rcall' = [rcall EXCEPT ![i] =
                              [@ EXCEPT !.pc = "done", !.hit = got.hit, !.key = got.key,
                                        !.put = got.put,
                                        !.status = IF got.raised THEN 500 ELSE 200]]
             /\ putlog' = IF got.raised THEN putlog
                          ELSE Append(putlog,
                                   [by |-> i, key |-> got.key,
                                    object |-> PutKwargs(rcall[i].out.bytes,
                                        HandlerContentType(rcall[i].inp, rcall[i].out),
                                        HandlerMetadata(rcall[i].inp))])
    /\ UNCHANGED <<date, req, keyVars, manVars, loopVars, buildVars, pageVars, callVars>>

(***************************************************************************)
(* Specifications                                                          *)
(***************************************************************************)
\* The variables of the later specifications before any call
InitSide ==
    /\ rcall = [i \in 1..MaxReq |-> IdleResolve]
    /\ putlog = <<>>
    /\ gets = [c \in 1..MaxReq |-> IdleGet]
    /\ builds = {}
    /\ manifest_out = NoManifest
    /\ pg = IdlePage
    /\ call = NoCall

Init ==
    /\ date = 0
    /\ store = EmptyStore
    /\ req = [i \in 1..MaxReq |-> IdleRequest]
    /\ klog = <<>>
    /\ clock = 0
    /\ bucket = Range(CatalogObjects)
    /\ indexed_prefixes = <<>>
    /\ cache_manifest = NoManifest
    /\ cache_time = 0
    /\ mcall = IdleCall
    /\ InitSide

\* The process starts with one of the prefix configurations
InitManifest ==
    /\ date = 0
    /\ store = EmptyStore
    /\ req = [i \in 1..MaxReq |-> IdleRequest]
    /\ klog = <<>>
    /\ clock = 0
    /\ bucket = Range(CatalogObjects)
    /\ indexed_prefixes \in PrefixConfigs
    /\ cache_manifest = NoManifest
    /\ cache_time = 0
    /\ mcall = IdleCall
    /\ InitSide

\* Any bucket content and any prefix configuration
InitBuild ==
    /\ date = 0
    /\ store = EmptyStore
    /\ req = [i \in 1..MaxReq |-> IdleRequest]
    /\ klog = <<>>
    /\ clock = 0
    /\ bucket \in SUBSET Range(CatalogObjects)
    /\ indexed_prefixes \in BuildConfigs
    /\ cache_manifest = NoManifest
    /\ cache_time = 0
    /\ mcall = IdleCall
    /\ InitSide

Next ==
    \/ \E i \in 1..MaxReq : Receive(i)
    \/ \E i \in 1..MaxReq : ProducerFails(i)
    \/ \E i \in 1..MaxReq : ProducerReturns(i)
    \/ AdvanceDay

\* The inference requests against the result cache
Spec == Init /\ [][Next]_vars

NextKey == DeriveKey \/ AdvanceDay

\* Calls of the key deriver on any days
SpecKey == Init /\ [][NextKey]_vars

NextManifest ==
    \/ GetStart
    \/ ListPage
    \/ ListFails
    \/ GetFinish
    \/ Tick
    \/ BucketChange

\* Calls of get_manifest_cached while the clock and the bucket move
SpecManifest == InitManifest /\ [][NextManifest]_vars

NextResolve ==
    \/ \E i \in 1..MaxReq : ResolveInvoke(i)
    \/ \E i \in 1..MaxReq : ResolveProduced(i)
    \/ \E i \in 1..MaxReq : ResolveHead(i)
    \/ \E i \in 1..MaxReq : ResolvePut(i)
    \/ AdvanceDay

\* Resolve calls of several workers, interleaved at every request to the store
SpecResolve == Init /\ [][NextResolve]_vars

NextLoop ==
    \/ \E c \in 1..MaxReq : GetArrives(c)
    \/ \E c \in 1..MaxReq : GetRuns(c)
    \/ \E c \in 1..MaxReq : GetBuilds(c)
    \/ \E c \in 1..MaxReq : GetAssignsTime(c)
    \/ Tick
    \/ BucketChange

\* Manifest requests that arrive while others are being served
SpecLoop == Init /\ [][NextLoop]_vars

NextBuild == BuildManifest \/ BucketChange

\* Calls of build_manifest on any bucket content and prefix configuration
SpecBuild == InitBuild /\ [][NextBuild]_vars

NextPaginate == Paginate

\* Calls of paginate on lists, page numbers and page sizes of every kind
SpecPaginate == Init /\ [][NextPaginate]_vars

NextFilter == FilterPacks

\* Calls of filter_packs on the manifests of every bucket content
SpecFilter == InitBuild /\ [][NextFilter]_vars

NextQwen == QwenKeys

\* Pairs of edit_qwen requests and their keys
SpecQwen == Init /\ [][NextQwen]_vars

NextValidate ==
    \/ \E i \in 1..MaxReq : ReceiveChecked(i)
    \/ \E i \in 1..MaxReq : ProducerFails(i)
    \/ \E i \in 1..MaxReq : ProducerReturns(i)

\* Requests with valid and invalid parameters against the result cache
SpecValidate == Init /\ [][NextValidate]_vars

NextDrain == DrainStart \/ DrainPage

\* One drain of a prefix of any bucket; the loop, once started, keeps running.
SpecDrain == InitBuild /\ [][NextDrain]_vars /\ WF_vars(DrainPage)

NextIndex == IndexListing

\* The indexing loop on any listing
SpecIndex == Init /\ [][NextIndex]_vars

NextRestore == CallRestore

\* One call of the restore producer against any backend answers
SpecRestore == Init /\ [][NextRestore]_vars

NextAuth == RequireApiKey

\* One request against require_api_key under any configured key
SpecAuth == Init /\ [][NextAuth]_vars

NextConfig == CallCapability

\* Calls of the producers under any configuration
SpecConfig == Init /\ [][NextConfig]_vars

NextRecover == GetManifest \/ Tick \/ BucketChange

\* Calls of get_manifest_cached, each run to its end, with list errors, while
\* the clock and the bucket move between them
SpecRecover == Init /\ [][NextRecover]_vars

NextPresign == Presign \/ BucketChange

\* presign requests while the bucket moves
SpecPresign == Init /\ [][NextPresign]_vars

(***************************************************************************)
(* The result cache and the key deriver: properties                        *)
(***************************************************************************)
Invoked(i) == req[i].pc = "awaiting" \/ req[i].producer # "none"
Completed(i) == req[i].pc = "done" /\ req[i].status = 200
Triple(inp) == <<KeyTask(inp), KeyBytes(inp), KeyParams(inp)>>
SameTriple(i, j) == Triple(req[i].inp) = Triple(req[j].inp)

\* C1: the producer is never invoked for a request whose derived key already has
\* an artifact in the store: a handler calls its producer only when the store
\* holds nothing under the request's key, and a request that ends as a hit has
\* not invoked the producer.
C1_ProducerNotInvokedWhenCached ==
    [][\A i \in 1..MaxReq :
          /\ (req[i].pc = "idle" /\ req'[i].pc = "awaiting")
                => HandlerKey(req'[i].inp, date) \notin DOMAIN store
          /\ (req'[i].pc = "done" /\ req'[i].status = 200 /\ req'[i].hit)
                => ~Invoked(i)]_vars

\* Two parameter sets hold the same name/value pairs
SamePairs(p, q) == Range(ParamsOrEmpty(p)) = Range(ParamsOrEmpty(q))

SameKeyArgs(a, b) ==
    /\ a.task = b.task
    /\ a.source_url = b.source_url
    /\ a.style = b.style
    /\ a.ext = b.ext
    /\ SamePairs(a.params, b.params)

\* C2 as stated: two derivations with the same operation, source, variant, extension
\* and the same parameter pairs give the same key, whenever they are made.
C2_SameKeyAtAnyTimes ==
    \A i, j \in 1..Len(klog) :
        SameKeyArgs(klog[i].args, klog[j].args) => klog[i].key = klog[j].key

\* C2 amended: two derivations with the same operation, source, variant, extension
\* and the same parameter pairs (in any insertion order), made on the same UTC
\* date, give the same key.
C2_SameKeyOnSameDay ==
    \A i, j \in 1..Len(klog) :
        (SameKeyArgs(klog[i].args, klog[j].args) /\ klog[i].day = klog[j].day)
            => klog[i].key = klog[j].key

\* Two derivations on one day whose parameter sets hold the same two pairs in
\* different insertion orders, with the same key.
C2_Witness ==
    /\ Len(klog) = 2
    /\ SameKeyArgs(klog[1].args, klog[2].args)
    /\ klog[1].day = klog[2].day
    /\ klog[1].args.params # klog[2].args.params
    /\ klog[1].args.params # None /\ klog[2].args.params # None
    /\ Len(klog[1].args.params) = 2
    /\ klog[1].key = klog[2].key

\* C3: a request whose existence probe failed with the store unreachable performs
\* no put and is not answered as an ordinary miss.
C3_UnreachableProbeIsNoMiss ==
    \A i \in 1..MaxReq :
        req[i].probe = "unreachable" =>
            (req[i].put = "none" /\ ~(Completed(i) /\ ~req[i].hit))

\* C7: when the producer succeeded and the put failed, the request still answers
\* with the result (status 200), and the step stores nothing.
C7_PutFailureStillAnswers ==
    [][\A i \in 1..MaxReq :
          (req[i].pc = "awaiting" /\ req'[i].pc = "done" /\ req'[i].put = "failed")
              => (req'[i].status = 200 /\ store' = store)]_vars

C9_ArtifactImmutable ==
    [][\A k \in DOMAIN store : k \in DOMAIN store' /\ store'[k] = store[k]]_vars

\* The keys that the completed requests of request i's triple were answered with
KeysOfTriple(i) == {req[j].key : j \in {j \in 1..MaxReq : Completed(j) /\ SameTriple(i, j)}}
DaysOfTriple(i) == {req[j].day : j \in {j \in 1..MaxReq : Completed(j) /\ SameTriple(i, j)}}

\* C10 as stated: all completed requests of one (operation, content, params) were
\* answered with the same key, and the store holds an artifact under it.
C10_OneArtifactAtAnyTimes ==
    \A i \in 1..MaxReq :
        Completed(i) =>
            (Cardinality(KeysOfTriple(i)) = 1 /\ KeysOfTriple(i) \subseteq DOMAIN store)

\* C10 amended: completed requests of one (operation, content, params) whose keys
\* were derived on the same UTC date were answered with the same key; the store
\* holds an artifact under every such key, one per date.
C10_OneArtifactPerDay ==
    \A i \in 1..MaxReq :
        Completed(i) =>
            /\ \A j \in 1..MaxReq :
                 (Completed(j) /\ SameTriple(i, j) /\ req[i].day = req[j].day)
                     => req[i].key = req[j].key
            /\ KeysOfTriple(i) \subseteq DOMAIN store
            /\ Cardinality(KeysOfTriple(i)) = Cardinality(DaysOfTriple(i))

\* Two completed requests of one triple on one day, the first a miss after an
\* unreachable or absent probe, the second a hit.
C10_Witness ==
    \E i, j \in 1..MaxReq :
        /\ i # j /\ Completed(i) /\ Completed(j) /\ SameTriple(i, j)
        /\ req[i].day = req[j].day
        /\ ~req[i].hit /\ req[j].hit
        /\ req[i].key = req[j].key

\* The step in which request i's handler goes from the return of its producer
\* through get_or_put_cached to its response
Resolves(i) ==
    req[i].pc = "awaiting" /\ req'[i].pc = "done" /\ req'[i].producer = "ok"

\* C11: once a request was answered with hit = false under key k, every later
\* request that resolves k with the store reachable is answered with hit = true
\* and the same key k.
C11_HitAfterMiss ==
    [][\A i, j \in 1..MaxReq :
          (/\ i # j /\ Completed(i) /\ ~req[i].hit
           /\ Resolves(j)
           /\ HandlerKey(req[j].inp, date) = req[i].key
           /\ req'[j].probe # "unreachable")
              => (req'[j].status = 200 /\ req'[j].hit /\ req'[j].key = req[i].key)]_vars

\* A request answered as a miss whose put succeeded, and a later request for the
\* same key whose probe found the object and that was answered as a hit.
C11_Witness ==
    \E i, j \in 1..MaxReq :
        /\ i < j /\ Completed(i) /\ Completed(j)
        /\ req[i].probe = "absent" /\ req[i].put = "ok" /\ ~req[i].hit
        /\ req[j].probe = "found" /\ req[j].hit
        /\ req[j].key = req[i].key

\* C12: when the probe finds an object under the key, the call returns the same
\* key with hit = true, makes no put, and the store is the same after the call.
C12_FoundReturnsWithoutPut ==
    [][\A i \in 1..MaxReq :
          (Resolves(i) /\ req'[i].probe = "found")
              => /\ req'[i].status = 200 /\ req'[i].hit
                 /\ req'[i].key = HandlerKey(req[i].inp, date)
                 /\ req'[i].put = "none"
                 /\ store' = store]_vars

\* A request whose probe found the object: answered as a hit, without a put.
C12_Witness ==
    \E i \in 1..MaxReq :
        /\ Completed(i) /\ req[i].probe = "found" /\ req[i].hit
        /\ req[i].put = "none" /\ req[i].key \in DOMAIN store

\* C13: a call reports hit = true only when its probe found an object under the
\* key, which the store held when it was probed; a probe that failed (object
\* absent, or store unreachable) never gives hit = true.
C13_HitOnlyWhenFound ==
    [][\A i \in 1..MaxReq :
          Resolves(i) =>
              /\ req'[i].hit =>
                    (req'[i].probe = "found" /\ req'[i].key \in DOMAIN store)
              /\ req'[i].probe \in {"absent", "unreachable"} => ~req'[i].hit]_vars

\* A request whose probe failed with the store unreachable while the object was
\* there, answered with hit = false.
C13_Witness ==
    \E i, j \in 1..MaxReq :
        /\ i < j /\ Completed(i) /\ Completed(j) /\ req[i].key = req[j].key
        /\ req[i].put = "ok"
        /\ req[j].probe = "unreachable" /\ ~req[j].hit

\* The object of the last successful put under key k
LastPut(k) ==
    LET at == {n \in 1..Len(putlog) : putlog[n].key = k}
    IN  putlog[CHOOSE n \in at : \A m \in at : m <= n].object

\* C14: in every interleaving of the workers' resolve calls, a call whose
\* producer answered and whose put did not fail completes with the key of its
\* request, calls for the same request on the same day return the same key, and
\* once calls for a key have completed the store holds under that key the object
\* of the last put; this includes the interleavings in which several calls
\* observe the key absent and all of them put.
C14_ConcurrentResolveConverges ==
    \A i \in 1..MaxReq :
        /\ (rcall[i].pc = "done" /\ rcall[i].key # NoKey /\ rcall[i].put # "failed")
              => rcall[i].status = 200
        /\ rcall[i].status = 200 =>
              /\ rcall[i].key \in DOMAIN store
              /\ store[rcall[i].key] = LastPut(rcall[i].key)
              /\ \A j \in 1..MaxReq :
                    (rcall[j].status = 200 /\ rcall[j].inp = rcall[i].inp
                        /\ rcall[j].key.day = rcall[i].key.day)
                       => rcall[j].key = rcall[i].key

\* Two calls for the same key that both observed it absent and both put, with
\* different producer outputs; the store holds the output of the later put.
C14_Witness ==
    \E i, j \in 1..MaxReq :
        /\ i # j /\ rcall[i].status = 200 /\ rcall[j].status = 200
        /\ rcall[i].key = rcall[j].key
        /\ rcall[i].probe = "absent" /\ rcall[j].probe = "absent"
        /\ rcall[i].put = "ok" /\ rcall[j].put = "ok"
        /\ rcall[i].out # rcall[j].out
        /\ Len(putlog) = 2 /\ putlog[2].by = j
        /\ store[rcall[i].key].Body = rcall[j].out.bytes

(***************************************************************************)
(* The manifest cache: properties                                          *)
(***************************************************************************)

\* C4: a get call that had a manifest cached and whose rebuild failed with a
\* store error returns the previously cached manifest instead of raising.
C4_FailedRebuildReturnsStale ==
    (mcall.pc = "idle" /\ mcall.listError /\ mcall.pre.manifest # NoManifest)
        => (mcall.result = "returned" /\ mcall.ret = mcall.pre.manifest)

\* C5: a list error during a crawl leaves the cached manifest and its build time
\* as they were when the get call started; the cache changes only in the step
\* that ends a complete crawl, and then to the manifest of that crawl.
C5_FailedCrawlLeavesCache ==
    [][/\ (mcall.pc = "crawling" /\ mcall'.listError)
            => /\ cache_manifest' = mcall.pre.manifest
               /\ cache_time' = mcall.pre.time
               /\ cache_manifest' = cache_manifest /\ cache_time' = cache_time
       /\ (cache_manifest' # cache_manifest \/ cache_time' # cache_time)
            => /\ mcall.pc = "crawling" /\ CrawlDone(mcall)
               /\ cache_manifest' = FinishManifest(mcall.packs)
               /\ cache_time' = mcall.now]_vars

\* A rebuild that failed on a page of the second prefix, after files were
\* collected, with the earlier manifest still cached.
C5_Witness ==
    /\ mcall.pc = "idle" /\ mcall.listError
    /\ mcall.prefix = 2 /\ mcall.pages >= 1 /\ mcall.packs # <<>>
    /\ cache_manifest # NoManifest
    /\ cache_manifest = mcall.pre.manifest /\ cache_time = mcall.pre.time

\* C6: a get call that found no manifest, or one built more than the TTL before
\* the time the call read, returns only after a crawl; the manifest a call returns
\* is the cached one and its build time is not older than that time minus the TTL.
C6_NoStaleReturn ==
    mcall.result = "returned" =>
        /\ (\/ mcall.pre.manifest = NoManifest
            \/ mcall.now - mcall.pre.time > MANIFEST_CACHE_TTL_SECONDS) => mcall.crawled
        /\ mcall.ret = cache_manifest
        /\ mcall.now - cache_time <= MANIFEST_CACHE_TTL_SECONDS

\* A get call that found an expired manifest, crawled and returned the new one.
C6_Witness ==
    /\ mcall.result = "returned" /\ mcall.crawled
    /\ mcall.pre.manifest # NoManifest
    /\ mcall.now - mcall.pre.time > MANIFEST_CACHE_TTL_SECONDS
    /\ mcall.ret # mcall.pre.manifest

\* C15: the (manifest, time) pair a get call finds in the cache is the pair of
\* the start (nothing cached) or the pair one finished rebuild stored: never the
\* manifest of one rebuild with the time of another; and whenever no call is
\* inside a rebuild, the cache holds such a pair.
C15_PairSwappedAtomically ==
    LET pairs == builds \cup {[manifest |-> NoManifest, time |-> 0]}
    IN  /\ \A c \in 1..MaxReq :
              gets[c].pc \in {"crawling", "assigning", "done"} => gets[c].seen \in pairs
        /\ (\A c \in 1..MaxReq : gets[c].pc \notin {"crawling", "assigning"})
              => [manifest |-> cache_manifest, time |-> cache_time] \in pairs

\* A get call found the pair of an earlier rebuild, made at a time after the
\* start, while another rebuild has stored a different pair since.
C15_Witness ==
    \E c \in 1..MaxReq :
        /\ gets[c].pc = "done"
        /\ gets[c].seen.manifest # NoManifest /\ gets[c].seen.time > 0
        /\ gets[c].seen \in builds
        /\ [manifest |-> cache_manifest, time |-> cache_time] # gets[c].seen

\* C16: at most one get call is inside a rebuild at any time.
C16_OneRebuildInFlight ==
    Cardinality({c \in 1..MaxReq : gets[c].pc \in {"crawling", "assigning"}}) <= 1

\* A rebuild is in flight while another request has arrived and would find the
\* cache empty or expired.
C16_Witness ==
    \E c, d \in 1..MaxReq :
        /\ gets[c].pc = "crawling" /\ gets[d].pc = "waiting"
        /\ \/ cache_manifest = NoManifest
           \/ clock - cache_time > MANIFEST_CACHE_TTL_SECONDS

\* C17: a get call made while a manifest is cached and now - _cache_time <= TTL
\* makes no list call, changes nothing in the cache and returns the cached
\* manifest; a crawl starts only in a get call that finds the cache empty or
\* expired, and list calls are made only inside such a crawl.
C17_FreshGetIsPureRead ==
    [][/\ (/\ mcall.pc = "idle" /\ mcall' # mcall
           /\ cache_manifest # NoManifest
           /\ clock - cache_time <= MANIFEST_CACHE_TTL_SECONDS)
            => /\ mcall'.pc = "idle" /\ mcall'.result = "returned"
               /\ mcall'.ret = cache_manifest
               /\ mcall'.pages = 0 /\ ~mcall'.crawled
               /\ cache_manifest' = cache_manifest /\ cache_time' = cache_time
       /\ (mcall.pc = "idle" /\ mcall'.pc = "crawling")
            => \/ cache_manifest = NoManifest
               \/ clock - cache_time > MANIFEST_CACHE_TTL_SECONDS
       /\ mcall'.pages > mcall.pages => mcall.pc = "crawling"]_vars

\* A get call made after the build time but within the TTL returned the cached
\* manifest without a list call, although the bucket has changed since the build.
C17_Witness ==
    /\ mcall.pc = "idle" /\ mcall.result = "returned" /\ ~mcall.crawled
    /\ mcall.pages = 0
    /\ mcall.ret = cache_manifest /\ cache_manifest # NoManifest
    /\ mcall.now > cache_time
    /\ mcall.now - cache_time <= MANIFEST_CACHE_TTL_SECONDS
    /\ build_manifest(bucket, indexed_prefixes) # cache_manifest

\* C18: in every manifest build_manifest returns, each pack's count is the length
\* of its files list and no two packs have the same id.
C18_CountAndUniqueIds ==
    LET ps == manifest_out.packs
    IN  /\ \A i \in 1..Len(ps) : ps[i].count = Len(ps[i].files)
        /\ \A i, j \in 1..Len(ps) : ps[i].id = ps[j].id => i = j

\* A manifest of one pack built with nested prefixes: the files under both
\* prefixes are listed twice and the pack's count is the length of its list.
C18_Witness ==
    /\ manifest_out # NoManifest
    /\ Len(manifest_out.packs) = 1
    /\ indexed_prefixes = << <<"Cat1">>, <<"Cat1", "T1">> >>
    /\ manifest_out.packs[1].count = 4
    /\ Len(manifest_out.packs[1].files) = 4

\* C19: in every manifest build_manifest returns, the packs are in non-decreasing
\* order of (category, target), in whatever order the listings brought the files.
C19_PacksSorted ==
    LET ps == manifest_out.packs
    IN  \A i, j \in 1..Len(ps) : i < j => PackLeq(ps[i], ps[j])

\* A manifest whose crawl met the pack of Cat2 before the pack of Cat1 and that
\* lists Cat1 first.
C19_Witness ==
    /\ indexed_prefixes = << <<"Cat2">>, <<"Cat1">> >>
    /\ manifest_out = build_manifest(bucket, indexed_prefixes)
    /\ Len(manifest_out.packs) = 2
    /\ manifest_out.packs[1].category = "Cat1"
    /\ manifest_out.packs[2].category = "Cat2"

\* C20: paginate returns total = len(items); total_pages = max(1, ceil(total /
\* page_size)), the least number of pages of page_size items that hold them all;
\* the page number clamped into 1..total_pages; and the items of that page in
\* their order (none for an empty list, the last partial page when the page is
\* past the end); a page_size <= 0 counts as 50 in all of this.
C20_PaginateClamps ==
    pg.pc = "done" =>
        LET total == Len(pg.items)
            size == IF pg.page_size <= 0 THEN 50 ELSE pg.page_size
            pages == CHOOSE k \in 0..total :
                        k * size >= total /\ (k = 0 \/ (k - 1) * size < total)
            tp == IF pages >= 1 THEN pages ELSE 1
            want == IF pg.page < 1 THEN 1 ELSE IF pg.page > tp THEN tp ELSE pg.page
            first == (want - 1) * size
            n == IF total - first >= size THEN size
                 ELSE IF total - first > 0 THEN total - first ELSE 0
        IN  /\ pg.out.total = total
            /\ pg.out.total_pages = tp
            /\ pg.out.page = want
            /\ pg.out.page \in 1..pg.out.total_pages
            /\ Len(pg.out.items) = n
            /\ \A k \in 1..n : pg.out.items[k] = pg.items[first + k]
            /\ total = 0 => pg.out.items = <<>>
            /\ (total > 0 /\ pg.page > tp) => pg.out.items[n] = pg.items[total]

\* paginate(25 items, page 99, page_size 10): clamped to page 3 of 3, the last
\* five items.
C20_Witness ==
    /\ pg.pc = "done"
    /\ Len(pg.items) = 25 /\ pg.page = 99 /\ pg.page_size = 10
    /\ pg.out.page = 3 /\ pg.out.total_pages = 3 /\ pg.out.total = 25
    /\ pg.out.items = <<21, 22, 23, 24, 25>>

(***************************************************************************)
(* The request handlers and helpers of the catalog: properties             *)
(***************************************************************************)

\* C21: filter_packs returns exactly the packs whose category equals the category
\* given and whose target equals the target given, in their order in the
\* manifest; a value given as the empty string is compared like any other, and
\* only a filter that is None passes every pack.
C21_FilterExactOnProvided ==
    call.op = "filter_packs" =>
        call.out = SelectSeq(call.data.packs,
                       LAMBDA p : /\ (call.category # None => p.category = call.category)
                                  /\ (call.target # None => p.target = call.target))

\* C22: two edit_qwen requests with the same prompt, steps and scale whose lists
\* of image byte sequences differ never get the same key.
C22_DifferentImagesDifferentKey ==
    call.op = "qwen_keys" =>
        ((/\ call.a.prompt = call.b.prompt
          /\ call.a.num_inference_steps = call.b.num_inference_steps
          /\ call.a.guidance_scale = call.b.guidance_scale
          /\ image_bytes_list(call.a) # image_bytes_list(call.b))
            => call.key_a # call.key_b)

\* The manifest holds a pack with the id of the body whose files hold its key
Listed(data, body) ==
    \E n \in 1..Len(data.packs) :
        /\ data.packs[n].id = body.pack_id
        /\ \E m \in 1..Len(data.packs[n].files) : data.packs[n].files[m].key = body.key

\* C23: a presign request that got the manifest is answered with a presigned URL
\* only if the manifest holds a pack with the request's pack id whose files hold
\* the request's key; otherwise it ends with the not-found error (404) and no
\* URL is issued.
C23_PresignOnlyListedElseNotFound ==
    (call.op = "presign" /\ ~call.raised) =>
        /\ call.issued => (Listed(call.data, call.body) /\ call.status = 200)
        /\ ~Listed(call.data, call.body) => (call.status = 404 /\ ~call.issued)

\* A restore request one of whose checked parameters is out of its range
InvalidRestore(inp) ==
    \/ inp.task \notin {"upscale", "upscale+face_restore"}
    \/ inp.upscale \notin {2, 3, 4}
    \/ inp.tile < 0
    \/ inp.codeformer_fidelity < 0
    \/ inp.codeformer_fidelity > 10

\* C24: a restore request with an invalid task, upscale, tile or
\* codeformer_fidelity is, once received, answered with the validation error
\* (422) and has invoked no producer, probed no key and written nothing; an
\* edit_by_text request with an empty prompt is rejected with a client error
\* (422, or 400 when its upload cannot be read) in the same way.
C24_InvalidParametersRejectedBeforeIO ==
    \A i \in 1..MaxReq :
        LET r == req[i]
            untouched == /\ r.pc = "done"
                         /\ r.producer = "none"
                         /\ r.probe = "none"
                         /\ r.put = "none"
                         /\ r.key = NoKey
        IN  /\ (r.pc # "idle" /\ r.inp.op = "restore" /\ InvalidRestore(r.inp))
                   => (untouched /\ r.status = 422)
            /\ (r.pc # "idle" /\ r.inp.op = "edit_by_text" /\ r.inp.prompt = "")
                   => (untouched /\ r.status \in {400, 422})

\* Witness for C24: a restore request with a negative tile was rejected after
\* another request had put an object, and the store holds that object only.
C24_Witness ==
    /\ req[1].pc = "done" /\ req[1].put = "ok"
    /\ req[2].pc = "done" /\ req[2].inp.op = "restore" /\ req[2].inp.tile < 0
    /\ req[2].status = 422
    /\ DOMAIN store = {req[1].key}

HasAllowedExtension(key) ==
    \E e \in ALLOWED_EXTS :
        LET n == key.name
        IN  /\ Len(n) > Len(e)
            /\ \A i \in 1..Len(e) : Lower(n[Len(n) - Len(e) + i]) = e[i]

\* Some pack holds a file with this key
InPacks(packs, key) ==
    \E n \in 1..Len(packs) : \E m \in 1..Len(packs[n].files) : packs[n].files[m].key = key

\* C27: a listed record is in the packs if and only if its key does not end
\* with "/", its extension, case-insensitively, is one of .xmp, .cube,
\* .onpreset and .onpreset.zip, and its key has at least three segments.
C27_KeptIffValid ==
    call.op = "index" =>
        \A n \in 1..Len(call.listed) :
            LET key == call.listed[n].Key
            IN  InPacks(call.packs, key) <=>
                    /\ ~EndsWithSlash(key)
                    /\ HasAllowedExtension(key)
                    /\ Len(SplitParts(key)) >= 3

\* The record passes the three checks of the loop
Survives(obj) ==
    /\ ~EndsWithSlash(obj.Key)
    /\ _is_valid_file(obj.Key)
    /\ Len(SplitParts(obj.Key)) >= 3

\* The first two segments of the record's key
PairOf(obj) == <<SplitParts(obj.Key)[1], SplitParts(obj.Key)[2]>>

\* C28: the loop produces exactly one pack for each distinct pair (first
\* segment, second segment) among the surviving keys, with that pair as its id
\* (category/target), and the files of the pack are the surviving records of
\* that pair in the order of the listing.
C28_OnePackPerPairInListingOrder ==
    call.op = "index" =>
        LET surviving == SelectSeq(call.listed, Survives)
            packs == call.packs
        IN  /\ {packs[n].id : n \in 1..Len(packs)} =
                   {PairOf(surviving[n]) : n \in 1..Len(surviving)}
            /\ \A i, j \in 1..Len(packs) : packs[i].id = packs[j].id => i = j
            /\ \A n \in 1..Len(packs) :
                   LET mine == SelectSeq(surviving, LAMBDA o : PairOf(o) = packs[n].id)
                   IN  /\ packs[n].id = <<packs[n].category, packs[n].target>>
                       /\ Len(packs[n].files) = Len(mine)
                       /\ \A m \in 1..Len(mine) :
                              /\ packs[n].files[m].key = mine[m].Key
                              /\ packs[n].files[m].size = mine[m].Size
                              /\ packs[n].files[m].etag = mine[m].ETag

\* Witness for C28: a listing of two files of Cat1/T1 and one of Cat2/T2 gave
\* the pack Cat1/T1 with the two files in listing order and the pack Cat2/T2
\* with one.
C28_Witness ==
    /\ call.op = "index"
    /\ Len(call.listed) = 3
    /\ Len(call.packs) = 2
    /\ call.packs[1].id = <<"Cat1", "T1">>
    /\ Len(call.packs[1].files) = 2
    /\ call.packs[1].files[1].key = call.listed[1].Key
    /\ call.packs[1].files[2].key = call.listed[2].Key
    /\ call.packs[1].files[1].key # call.packs[1].files[2].key
    /\ call.packs[2].id = <<"Cat2", "T2">>
    /\ Len(call.packs[2].files) = 1

\* The objects of the bucket under the prefix, in the order the store lists them
ObjectsUnder(b, prefix) ==
    SelectSeq(CatalogObjects, LAMBDA o : o \in b /\ StartsWith(o.Key, prefix))

\* The drain has ended with every record of every page yielded once in page
\* order: the first call had no token, each later call had the continuation
\* token of the truncated page before it, and the last page was not truncated.
DrainedInPageOrder ==
    /\ call.yielded = ObjectsUnder(bucket, call.prefix)
    /\ Len(call.tokens) >= 1
    /\ call.tokens[1] = 0
    /\ \A n \in 2..Len(call.tokens) :
           LET prev == list_objects(bucket, call.prefix, call.tokens[n - 1])
           IN  prev.IsTruncated /\ call.tokens[n] = prev.NextContinuationToken
    /\ ~list_objects(bucket, call.prefix, call.tokens[Len(call.tokens)]).IsTruncated

\* C29: a drain of a prefix terminates, and when it has ended it has yielded
\* every record of every page exactly once in page order, having called list
\* without a token first and then with each truncated page's continuation
\* token, up to the first page that is not truncated.
C29_DrainTerminatesAndYieldsAllOnce ==
    /\ [](call.op = "drain" /\ call.pc = "done" => DrainedInPageOrder)
    /\ (call.op = "drain") ~> (call.op = "drain" /\ call.pc = "done")

\* Witness for C29: a drain of the whole bucket has ended after two calls, the
\* second with the token of the first page, with the four records of the two
\* pages in order.
C29_Witness ==
    /\ call.op = "drain"
    /\ call.pc = "done"
    /\ call.tokens = <<0, 2>>
    /\ call.yielded = CatalogObjects

\* The keys of the files of a manifest
FileKeys(m) ==
    IF m = NoManifest THEN {}
    ELSE UNION { {m.packs[n].files[k].key : k \in 1..Len(m.packs[n].files)} :
                 n \in 1..Len(m.packs) }

\* C30: the cached manifest changes only when a crawl ends successfully, and
\* the manifest a successful crawl leaves in the cache holds only file keys
\* that the list calls of that crawl returned, whatever the manifest before
\* it held.
C30_RebuildFromThisCrawlOnly ==
    [][LET ends == mcall.pc = "crawling" /\ mcall'.pc = "idle" /\ mcall'.crawled
       IN  /\ (cache_manifest' # cache_manifest) => ends
           /\ ends => (/\ FileKeys(cache_manifest') \subseteq mcall'.listed
                       /\ mcall'.ret = cache_manifest')]_vars

\* Witness for C30: a rebuild has replaced a manifest that held a file by one
\* that does not hold it, the file's object having left the bucket.
C30_Witness ==
    /\ mcall.pc = "idle"
    /\ mcall.crawled
    /\ mcall.pre.manifest # NoManifest
    /\ cache_manifest # NoManifest
    /\ \E k \in FileKeys(mcall.pre.manifest) :
           /\ k \notin FileKeys(cache_manifest)
           /\ \A o \in bucket : o.Key # k
    /\ FileKeys(cache_manifest) # {}

\* Two derivations that differ in nothing but params, None in the first and
\* the empty dict in the second, on the same day
NoneThenEmpty(x, y) ==
    /\ x.args.params = None
    /\ y.args.params # None
    /\ Len(y.args.params) = 0
    /\ x.args.task = y.args.task
    /\ x.args.source_url = y.args.source_url
    /\ x.args.style = y.args.style
    /\ x.args.ext = y.args.ext
    /\ x.day = y.day

\* C26: deriving a key with params = None gives the same key as deriving it
\* with params = {}, all other inputs and the date being equal.
C26_NoneParamsAsEmpty ==
    \A m, n \in 1..Len(klog) : NoneThenEmpty(klog[m], klog[n]) => klog[m].key = klog[n].key

\* Witness for C26: a derivation without params followed by one with the empty
\* dict for the same task, source, style and day.
C26_Witness ==
    /\ Len(klog) = 2
    /\ NoneThenEmpty(klog[1], klog[2])
    /\ klog[1].key.ns = "inference"

\* C31: in every built manifest each object key appears at most once across
\* the files lists of all packs, whatever the prefix configuration.
C31_KeyAtMostOnce ==
    LET ps == manifest_out.packs
    IN  \A i, j \in 1..Len(ps) :
            \A m \in 1..Len(ps[i].files), n \in 1..Len(ps[j].files) :
                ps[i].files[m].key = ps[j].files[n].key => (i = j /\ m = n)

\* The requests that went through get_or_put_cached with the key of request i
SameKeyAs(i) ==
    {j \in 1..MaxReq : req[j].pc = "done" /\ req[j].producer = "ok"
                        /\ req[j].key = req[i].key}

\* C32: in one process, among the requests that resolved the same key with
\* every store call succeeding (each probe answered found or absent, no put
\* failed), at most one performed a put and all the others reported hit = true.
C32_OnePutPerKeyInProcess ==
    \A i \in 1..MaxReq :
        (/\ req[i].pc = "done" /\ req[i].producer = "ok"
         /\ \A j \in SameKeyAs(i) : req[j].probe \in {"found", "absent"}
                                     /\ req[j].put # "failed")
            => /\ Cardinality({j \in SameKeyAs(i) : req[j].put = "ok"}) <= 1
               /\ \A j \in SameKeyAs(i) : req[j].put # "ok" => req[j].hit

\* Witness for C32: two requests resolved the same key; the first put the
\* object and the second found it.
C32_Witness ==
    /\ Completed(1) /\ Completed(2)
    /\ req[1].key = req[2].key
    /\ req[1].probe = "absent" /\ req[1].put = "ok" /\ ~req[1].hit
    /\ req[2].probe = "found" /\ req[2].put = "none" /\ req[2].hit

\* C33: the get call that follows a get call failed by a store error, made
\* when the store answers again, crawls anew and returns (and caches) the
\* manifest of the bucket's content at that time.
C33_RefreshAfterFailedRebuild ==
    [][LET next == /\ call.op = "get_manifest" /\ call.raised
                   /\ call' # call /\ ~call'.raised
       IN  next => /\ call'.crawled
                   /\ call'.ret = build_manifest(bucket, indexed_prefixes)
                   /\ cache_manifest' = call'.ret
                   /\ cache_time' = clock]_vars

\* Witness for C33: a manifest was cached, a later rebuild failed, the bucket
\* lost an object, and the next call returned a manifest without that object.
C33_Witness ==
    /\ call.op = "get_manifest"
    /\ call.after_failure /\ ~call.raised /\ call.crawled
    /\ call.now > MANIFEST_CACHE_TTL_SECONDS
    /\ call.ret = build_manifest(bucket, indexed_prefixes)
    /\ Len(call.ret.packs) = 1
    /\ bucket # Range(CatalogObjects)

\* The items of the pages k..last of a list, page after page
RECURSIVE PagesFrom(_, _, _, _)
PagesFrom(items, page_size, k, last) ==
    IF k > last THEN <<>>
    ELSE paginate(items, k, page_size).items \o PagesFrom(items, page_size, k + 1, last)

\* C34: for a page_size > 0 the pages 1..total_pages that paginate returns for
\* a list partition it: one after the other they are the list, every page but
\* the last has page_size items, and the last has 1..page_size items when the
\* list is not empty.
C34_PagesPartitionTheList ==
    (pg.pc = "done" /\ pg.page_size > 0) =>
        LET tp == pg.out.total_pages
            pageOf(k) == paginate(pg.items, k, pg.page_size)
        IN  /\ PagesFrom(pg.items, pg.page_size, 1, tp) = pg.items
            /\ \A k \in 1..tp : pageOf(k).page = k /\ pageOf(k).total_pages = tp
            /\ \A k \in 1..(tp - 1) : Len(pageOf(k).items) = pg.page_size
            /\ pg.items # <<>> => Len(pageOf(tp).items) \in 1..pg.page_size
            /\ \E k \in 1..tp : pg.out = pageOf(k)

\* Witness for C34: 25 items in pages of 10; page 2 of 3 holds the items 11..20
\* and the last page holds five.
C34_Witness ==
    /\ pg.pc = "done"
    /\ Len(pg.items) = 25 /\ pg.page = 2 /\ pg.page_size = 10
    /\ pg.out.total_pages = 3
    /\ pg.out.items = [k \in 1..10 |-> 10 + k]
    /\ Len(paginate(pg.items, 3, pg.page_size).items) = 5

\* C35: the restore producer sends at most two requests; it sends a second one
\* only after a first response of status 400 or 415; any other first response
\* but 200 fails the call at once; and the call returns bytes only if the last
\* response it received has status 200 and carries an "image" or an "outputs"
\* field.
C35_RestoreAtMostTwoRequests ==
    call.op = "restore_exchange" =>
        LET last == IF call.sent = 2 THEN call.r2 ELSE call.r1
        IN  /\ call.sent \in {1, 2}
            /\ call.sent = 2 => call.r1 \in {400, 415}
            /\ call.r1 \notin {200, 400, 415} => (call.raised /\ call.sent = 1)
            /\ ~call.raised =>
                   /\ last = 200
                   /\ call.body.json
                   /\ (call.body.image # "absent" \/ call.body.outputs # "absent")

\* Witness for C35: the first response was 415, the second 200 with an
\* "outputs" field, and the call returned after two requests.
C35_Witness ==
    /\ call.op = "restore_exchange"
    /\ call.r1 = 415 /\ call.r2 = 200
    /\ call.body.image = "absent" /\ call.body.outputs = "base64"
    /\ call.sent = 2 /\ ~call.raised

\* The request carries this key: in its X-API-Key header, or else, with no or
\* an empty X-API-Key header, after the scheme ApiKey in its Authorization
\* header; blanks around the key do not count.
Presents(c, k) ==
    \/ c.x_api_key.present /\ c.x_api_key.text # <<>> /\ Strip(c.x_api_key.text) = k
    \/ /\ ~(c.x_api_key.present /\ c.x_api_key.text # <<>>)
       /\ c.authorization.present
       /\ c.authorization.scheme \in {"ApiKey", "APIKEY"}
       /\ Strip(c.authorization.rest) = k

\* C36: require_api_key lets a request through only if the key it presents is
\* not empty and is the configured API key; with no API key configured every
\* request is rejected with 401.
C36_OnlyTheConfiguredKey ==
    call.op = "require_api_key" =>
        /\ call.status \in {200, 401}
        /\ call.status = 200 => (call.API_KEY # <<>> /\ Presents(call, call.API_KEY))
        /\ call.API_KEY = <<>> => call.status = 401

\* Witness for C36: a request with a foreign X-API-Key and the right key in its
\* Authorization header is rejected, the X-API-Key header being the one read.
C36_Witness ==
    /\ call.op = "require_api_key"
    /\ call.API_KEY = <<"a">>
    /\ call.x_api_key = [present |-> TRUE, text |-> <<"b">>]
    /\ call.authorization = [present |-> TRUE, scheme |-> "ApiKey", rest |-> <<"a">>]
    /\ call.status = 401

====
